---- MODULE Spec2Model ----
(***************************************************************************)
(* gohome: a "go-link" redirector.  Short codes map to destination URL     *)
(* templates; a visit resolves the short code, expands the template with   *)
(* the rest of the request path and the query parameters, answers with a   *)
(* redirect and counts the click.                                          *)
(*                                                                         *)
(* Text is modelled character by character: a string is a sequence of      *)
(* one-character strings, so that encoding, searching and appending are    *)
(* computed the way the code computes them.                                *)
(***************************************************************************)
EXTENDS Integers, Sequences, FiniteSets, TLC

VARIABLES
    call,       \* the function call under examination (pure-function specifications)
    links,      \* table Links: normalized ID -> row [short, long]
    stats,      \* table Stats: its rows [ID, clicks], in insertion order
    reqs,       \* the redirect requests accepted so far, in flight or answered
    started     \* number of requests accepted so far

vars == <<call, links, stats, reqs, started>>

(***************************************************************************)
(* Bounds                                                                  *)
(***************************************************************************)
MaxShortLen == 3    \* longest short code given to normalized_id
MaxPathLen == 4     \* longest text after the leading "/" of a full path
MaxSlugLen == 2     \* longest short code given to path_remainder
MaxLongLen == 3     \* longest generated literal pattern given to with_path

(***************************************************************************)
(* Strings                                                                 *)
(***************************************************************************)
StringsUpTo(A, n) == UNION {[1..k -> A] : k \in 0..n}

Chars(s) == {s[i] : i \in 1..Len(s)}

starts_with(s, p) == Len(p) <= Len(s) /\ SubSeq(s, 1, Len(p)) = p

ends_with(s, p) == Len(p) <= Len(s) /\ SubSeq(s, Len(s) - Len(p) + 1, Len(s)) = p

\* every index at which pat occurs in s
Occurrences(s, pat) == {i \in 1..(Len(s) - Len(pat) + 1) : SubSeq(s, i, i + Len(pat) - 1) = pat}

\* str::find: the index of the first occurrence of pat in s, 0 for None
find(s, pat) ==
    LET occ == Occurrences(s, pat)
    IN  IF occ = {} THEN 0 ELSE CHOOSE i \in occ : \A j \in occ : i <= j

contains(s, pat) == find(s, pat) # 0

From(s, i) == SubSeq(s, i, Len(s))

\* str::replace(from, to) for a one-character pattern
RECURSIVE replace(_, _, _)
replace(s, from, to) ==
    IF s = <<>> THEN <<>>
    ELSE (IF Head(s) = from THEN to ELSE <<Head(s)>>) \o replace(Tail(s), from, to)

Digit == {"0", "1", "2", "3", "4", "5", "6", "7", "8", "9"}
Alnum ==
    LET Lower == {"a", "b", "c", "d", "e", "f", "g", "h", "i", "j", "k", "l",
                  "m", "n", "o", "p", "q", "r", "s", "t", "u", "v", "w", "x",
                  "y", "z"}
        Upper == {"A", "B", "C", "D", "E", "F", "G", "H", "I", "J", "K", "L",
                  "M", "N", "O", "P", "Q", "R", "S", "T", "U", "V", "W", "X",
                  "Y", "Z"}
    IN  Lower \cup Upper \cup Digit

\* the %XX escape of a character (upper-case hexadecimal of its ASCII code)
PercentHex(c) ==
    CASE c = " "  -> <<"%", "2", "0">>
      [] c = "\"" -> <<"%", "2", "2">>
      [] c = "#"  -> <<"%", "2", "3">>
      [] c = "%"  -> <<"%", "2", "5">>
      [] c = "&"  -> <<"%", "2", "6">>
      [] c = "'"  -> <<"%", "2", "7">>
      [] c = "("  -> <<"%", "2", "8">>
      [] c = ")"  -> <<"%", "2", "9">>
      [] c = "+"  -> <<"%", "2", "B">>
      [] c = "/"  -> <<"%", "2", "F">>
      [] c = ":"  -> <<"%", "3", "A">>
      [] c = ";"  -> <<"%", "3", "B">>
      [] c = "<"  -> <<"%", "3", "C">>
      [] c = "="  -> <<"%", "3", "D">>
      [] c = ">"  -> <<"%", "3", "E">>
      [] c = "?"  -> <<"%", "3", "F">>
      [] c = "{"  -> <<"%", "7", "B">>
      [] c = "}"  -> <<"%", "7", "D">>

\* percent-encode every character of s outside the set keep
RECURSIVE percent_encode(_, _)
percent_encode(s, keep) ==
    IF s = <<>> THEN <<>>
    ELSE (IF Head(s) \in keep THEN <<Head(s)>> ELSE PercentHex(Head(s)))
         \o percent_encode(Tail(s), keep)

urlencoding_encode(s) == percent_encode(s, (Alnum \cup {"-", "_", ".", "~"}))

(***************************************************************************)
(* model.rs                                                                *)
(***************************************************************************)
normalized_id_first_hyphen(short) ==
    (LET i == find(urlencoding_encode(short),
     <<"-">>) IN IF i = 0 THEN urlencoding_encode(short) ELSE SubSeq(urlencoding_encode(short),
     1, i - 1) \o <<"t", "o">> \o From(urlencoding_encode(short), i + 1))

normalized_id(short) == replace(urlencoding_encode(short), "-", <<"t", "o">>)

(***************************************************************************)
(* render.rs: the path remainder                                           *)
(***************************************************************************)
\* the slug searched for: short_slug with a "/" put in front unless it has one
slug_of(short_slug) ==
    IF starts_with(short_slug, <<"/">>) THEN short_slug ELSE <<"/">> \o short_slug

path_remainder_every_match(full_path, short_slug) ==
    LET slug == slug_of(short_slug)
        RECURSIVE strip(_)
        strip(s) == LET i == find(s, slug)
                    IN  IF i = 0 THEN s
                        ELSE SubSeq(s, 1, i - 1) \o strip(From(s, i + Len(slug)))
    IN  strip(full_path)

path_remainder(full_path, short_slug) ==
    LET slug == slug_of(short_slug)
        start_index == find(full_path, slug)
    IN  IF start_index # 0
        THEN LET end_index == start_index + Len(slug)
                 before_match == SubSeq(full_path, 1, start_index - 1)
                 after_match == From(full_path, end_index)
             IN  before_match \o after_match
        ELSE full_path

\* handlers.rs: everything after the first "/", nothing when there is none
handlers_path_remainder(full_path) ==
    LET i == find(full_path, <<"/">>)
    IN  IF i = 0 THEN <<>> ELSE From(full_path, i + 1)

(***************************************************************************)
(* render.rs: effective template selection                                 *)
(***************************************************************************)
OpenMarker == <<"{", "{">>
PathPlaceholder == <<"{", "{", "p", "a", "t", "h", "}", "}">>

with_path_always_slash(path, long) ==
    IF ~contains(long, OpenMarker) /\ path # <<>>
    THEN long \o <<"/">> \o PathPlaceholder
    ELSE long

with_path(path, long) ==
    IF ~contains(long, OpenMarker) /\ path # <<>>
    THEN IF ends_with(long, <<"/">>)
         THEN long \o PathPlaceholder
         ELSE long \o <<"/">> \o PathPlaceholder
    ELSE long

(***************************************************************************)
(* Libraries the expansion is built on, as far as the patterns and         *)
(* remainders of this model exercise them.                                 *)
(***************************************************************************)
Letters == <<"a", "b", "c", "d", "e", "f", "g", "h", "i", "j", "k", "l", "m",
             "n", "o", "p", "q", "r", "s", "t", "u", "v", "w", "x", "y", "z">>
Capitals == <<"A", "B", "C", "D", "E", "F", "G", "H", "I", "J", "K", "L", "M",
              "N", "O", "P", "Q", "R", "S", "T", "U", "V", "W", "X", "Y", "Z">>

RECURSIVE map_chars(_, _, _)
map_chars(s, from, to) ==
    IF s = <<>> THEN <<>>
    ELSE LET hit == {i \in 1..Len(from) : from[i] = Head(s)}
         IN  <<IF hit = {} THEN Head(s) ELSE to[CHOOSE i \in hit : TRUE]>>
             \o map_chars(Tail(s), from, to)

to_uppercase(s) == map_chars(s, Letters, Capitals)

\* percent-encode exactly the characters of the set enc
RECURSIVE percent_encode_set(_, _)
percent_encode_set(s, enc) ==
    IF s = <<>> THEN <<>>
    ELSE (IF Head(s) \in enc THEN PercentHex(Head(s)) ELSE <<Head(s)>>)
         \o percent_encode_set(Tail(s), enc)

\* handlebars' default escape function (html_escape)
RECURSIVE html_escape(_)
html_escape(s) ==
    IF s = <<>> THEN <<>>
    ELSE (CASE Head(s) = "&"  -> <<"&", "a", "m", "p", ";">>
            [] Head(s) = "<"  -> <<"&", "l", "t", ";">>
            [] Head(s) = ">"  -> <<"&", "g", "t", ";">>
            [] Head(s) = "\"" -> <<"&", "q", "u", "o", "t", ";">>
            [] Head(s) = "'"  -> <<"&", "#", "x", "2", "7", ";">>
            [] Head(s) = "="  -> <<"&", "#", "x", "3", "D", ";">>
            [] OTHER -> <<Head(s)>>) \o html_escape(Tail(s))

\* ---- handlebars: render_template ----------------------------------------
Ok(v) == [ok |-> TRUE, v |-> v]
Err == [ok |-> FALSE, v |-> <<>>]

\* the template cut into raw text and the contents of its {{ }} tags; a "{{"
\* that is never closed is a parse error
RECURSIVE tokenize(_)
tokenize(s) ==
    IF s = <<>> THEN <<>>
    ELSE LET i == find(s, OpenMarker)
         IN  IF i = 0 THEN <<[kind |-> "text", s |-> s]>>
             ELSE LET text == SubSeq(s, 1, i - 1)
                      rest == From(s, i + 2)
                      j == find(rest, <<"}", "}">>)
                      lead == IF text = <<>> THEN <<>> ELSE <<[kind |-> "text", s |-> text]>>
                  IN  IF j = 0 THEN lead \o <<[kind |-> "unclosed", s |-> rest]>>
                      ELSE lead \o <<[kind |-> "tag", s |-> SubSeq(rest, 1, j - 1)]>>
                           \o tokenize(From(rest, j + 2))

\* the words of a tag, separated by spaces
RECURSIVE split_words(_)
split_words(s) ==
    IF s = <<>> THEN <<>>
    ELSE IF Head(s) = " " THEN split_words(Tail(s))
    ELSE LET i == find(s, <<" ">>)
         IN  IF i = 0 THEN <<s>>
             ELSE <<SubSeq(s, 1, i - 1)>> \o split_words(From(s, i + 1))

\* helper name -> number of declared parameters, per registry
\* (render.rs Renderer::new; handlers.rs setup)
W_path == <<"p", "a", "t", "h">>
H_query_escape == <<"q", "u", "e", "r", "y", "_", "e", "s", "c", "a", "p", "e">>
H_path_escape == <<"p", "a", "t", "h", "_", "e", "s", "c", "a", "p", "e">>
H_encode == <<"e", "n", "c", "o", "d", "e">>
H_lowercase == <<"l", "o", "w", "e", "r", "c", "a", "s", "e">>
H_uppercase == <<"u", "p", "p", "e", "r", "c", "a", "s", "e">>
H_trimsuffix == <<"t", "r", "i", "m", "s", "u", "f", "f", "i", "x">>
H_trimprefix == <<"t", "r", "i", "m", "p", "r", "e", "f", "i", "x">>
H_match == <<"m", "a", "t", "c", "h">>

Helpers(registry) == ({H_lowercase,
                      H_uppercase} \cup (IF registry = "Renderer" THEN {H_query_escape,
                      H_path_escape} ELSE {H_encode})) \cup {H_trimsuffix, H_trimprefix,
                                                             H_match}
Arity(name) == IF name \in {H_trimsuffix, H_trimprefix, H_match} THEN 2 ELSE 1

\* a quoted literal is read as a JSON string: \\ stands for a backslash, \"
\* for a quote; a backslash before a letter that starts no JSON escape makes
\* the literal invalid
RECURSIVE json_string(_)
json_string(s) ==
    IF s = <<>> THEN [some |-> TRUE, v |-> <<>>]
    ELSE IF Head(s) = "\\"
         THEN IF Len(s) >= 2 /\ s[2] \in {"\\", "\"", "/"}
              THEN LET rest == json_string(From(s, 3))
                   IN  [some |-> rest.some, v |-> <<s[2]>> \o rest.v]
              ELSE [some |-> FALSE, v |-> <<>>]
    ELSE LET rest == json_string(Tail(s))
         IN  [some |-> rest.some, v |-> <<Head(s)>> \o rest.v]

\* a parameter: the context value path, a quoted literal, or a name the
\* context does not define (its value is null)
param_value(w, path) ==
    IF w = W_path THEN [some |-> TRUE, v |-> path]
    ELSE IF Len(w) >= 2 /\ Head(w) \in {"'", "\""} /\ w[Len(w)] = Head(w)
         THEN json_string(SubSeq(w, 2, Len(w) - 1))
    ELSE [some |-> FALSE, v |-> <<>>]

RECURSIVE regex_parse(_)
regex_parse(p) ==
    IF p = <<>> THEN [ok |-> TRUE, items |-> <<>>]
    ELSE LET escaped == Head(p) = "\\"
             width == IF escaped THEN 2 ELSE 1
             atom == IF escaped
                     THEN (IF Len(p) < 2 THEN [kind |-> "bad", c |-> ""]
                           ELSE IF p[2] = "d" THEN [kind |-> "digit", c |-> ""]
                           ELSE IF p[2] \in Alnum THEN [kind |-> "bad", c |-> ""]
                           ELSE [kind |-> "char", c |-> p[2]])
                     ELSE IF Head(p) = "." THEN [kind |-> "any", c |-> ""]
                     ELSE IF Head(p) \in {"(", ")", "[", "+", "*", "?"}
                          THEN [kind |-> "bad", c |-> ""]
                     ELSE [kind |-> "char", c |-> Head(p)]
             repeated == Len(p) > width /\ p[width + 1] \in {"+", "*"}
             rest == regex_parse(From(p, width + (IF repeated THEN 2 ELSE 1)))
         IN  IF atom.kind = "bad" \/ ~rest.ok THEN [ok |-> FALSE, items |-> <<>>]
             ELSE [ok |-> TRUE,
                   items |-> <<[atom |-> atom,
                               rep |-> IF repeated THEN p[width + 1] ELSE "1"]>>
                             \o rest.items]

atom_matches(atom, c) ==
    CASE atom.kind = "digit" -> c \in Digit
      [] atom.kind = "any" -> TRUE
      [] OTHER -> c = atom.c

\* the items match a prefix of s
RECURSIVE match_here(_, _)
match_here(items, s) ==
    IF items = <<>> THEN TRUE
    ELSE LET item == Head(items)
             first == s # <<>> /\ atom_matches(item.atom, Head(s))
         IN  CASE item.rep = "1" -> first /\ match_here(Tail(items), Tail(s))
               [] item.rep = "*" ->
                    \/ match_here(Tail(items), s)
                    \/ first /\ match_here(items, Tail(s))
               [] item.rep = "+" ->
                    first /\ match_here(<<[item EXCEPT !.rep = "*"]>> \o Tail(items),
                                        Tail(s))

\* a match helper that looks for the match at the start of the string only
match_string_at_start(pattern, path) ==
    LET re == regex_parse(pattern)
    IN  IF re.ok THEN match_here(re.items, path) ELSE FALSE

\* the match helper: false for a pattern that is no regular expression
match_string(pattern, path) ==
    LET re == regex_parse(pattern)
    IN  IF re.ok THEN (\E i \in 1..(Len(path) + 1) : match_here(re.items,
                       From(path, i))) ELSE FALSE

call_helper(name, a) ==
    CASE name = H_query_escape -> percent_encode_set(a[1], {" ", "\"", "#",
                                   "<", ">"})
      [] name = H_path_escape -> percent_encode_set(a[1], {" ", "\"", "#",
                                  "<", ">", "?", "{", "}"})
      [] name = H_encode -> urlencoding_encode(a[1])
      [] name = H_lowercase -> map_chars(a[1], Capitals, Letters)
      [] name = H_uppercase -> to_uppercase(a[1])
      [] name = H_trimsuffix -> (IF ends_with(a[1], a[2]) THEN SubSeq(a[1], 1,
                                 Len(a[1]) - Len(a[2])) ELSE a[1])
      [] name = H_trimprefix -> (IF starts_with(a[1], a[2]) THEN From(a[1],
                                 Len(a[2]) + 1) ELSE a[1])
      [] name = H_match -> IF match_string(a[1], a[2])
                           THEN <<"t", "r", "u", "e">>
                           ELSE <<"f", "a", "l", "s", "e">>

\* {{name}} or {{helper param ...}}: the parameters a helper declares are
\* read by position (a missing or null one is an error, any beyond them are
\* not looked at); a name that is no helper is a context lookup when it
\* stands alone and an error when it is given parameters
render_expression(words, registry, path) ==
    LET name == Head(words)
        params == [i \in 1..(Len(words) - 1) |-> param_value(words[i + 1], path)]
    IN  IF name \in Helpers(registry)
        THEN IF Len(params) < Arity(name) \/ \E i \in 1..Arity(name) : ~params[i].some
             THEN Err
             ELSE Ok(html_escape(call_helper(name, [i \in 1..Arity(name) |-> params[i].v])))
        ELSE IF Len(params) > 0 THEN Err
        ELSE IF name = W_path THEN Ok(html_escape(path))
        ELSE Ok(<<>>)

\* the condition of an #if as [ok, v]: a name, or a subexpression
\* (helper param ...), whose value is true when it is the boolean true or a
\* non-empty string; a subexpression that fails is a render error
condition(words, registry, path) ==
    IF Len(words) >= 2 /\ Head(words[2]) = "("
    THEN LET last == words[Len(words)]
             inner == <<Tail(words[2])>>
                      \o [i \in 1..(Len(words) - 2) |->
                            IF i + 2 = Len(words) THEN SubSeq(last, 1, Len(last) - 1)
                            ELSE words[i + 2]]
             name == Head(inner)
             params == [i \in 1..(Len(inner) - 1) |-> param_value(inner[i + 1], path)]
         IN  IF last[Len(last)] # ")" \/ name \notin Helpers(registry)
                \/ Len(params) < Arity(name)
                \/ \E i \in 1..Arity(name) : ~params[i].some
             THEN [ok |-> FALSE, v |-> FALSE]
             ELSE [ok |-> TRUE,
                   v |-> IF name = H_match
                         THEN match_string(params[1].v, params[2].v)
                         ELSE call_helper(name, [i \in 1..Arity(name) |-> params[i].v])
                              # <<>>]
    ELSE [ok |-> TRUE, v |-> (Len(words) >= 2 /\ param_value(words[2],
                              path).some /\ param_value(words[2],
                              path).v # <<>>)]

\* block is "none", "if" or "else"; shown tells whether the branch is rendered
RECURSIVE render_tokens(_, _, _, _, _)
render_tokens(toks, block, shown, registry, path) ==
    IF toks = <<>> THEN (IF block = "none" THEN Ok(<<>>) ELSE Err)
    ELSE LET t == Head(toks)
             words == split_words(t.s)
             then(out, b, sh) ==
                 LET rest == render_tokens(Tail(toks), b, sh, registry, path)
                 IN  IF out.ok /\ rest.ok THEN Ok(out.v \o rest.v) ELSE Err
         IN  CASE t.kind = "unclosed" -> Err
               [] t.kind = "text" -> then(Ok(IF shown THEN t.s ELSE <<>>), block, shown)
               [] t.kind = "tag" /\ words = <<>> -> Err
               [] t.kind = "tag" /\ words # <<>> /\ Head(words) = <<"#", "i", "f">> ->
                    IF block # "none" \/ Len(words) < 2 THEN Err
                    ELSE IF ~condition(words, registry, path).ok THEN Err
                    ELSE then(Ok(<<>>), "if", condition(words, registry, path).v)
               [] t.kind = "tag" /\ words # <<>> /\ Head(words) = <<"e", "l", "s", "e">> ->
                    IF block # "if" THEN Err ELSE then(Ok(<<>>), "else", ~shown)
               [] t.kind = "tag" /\ words # <<>> /\ Head(words) = <<"/", "i", "f">> ->
                    IF block = "none" THEN Err ELSE then(Ok(<<>>), "none", TRUE)
               [] OTHER ->
                    then(IF shown THEN render_expression(words, registry, path) ELSE Ok(<<>>),
                         block, shown)

\* Handlebars::render_template(template, {"path": path})
render_template(template, registry, path) ==
    render_tokens(tokenize(template), "none", TRUE, registry, path)

\* ---- url::Url ------------------------------------------------------------
None == [some |-> FALSE, v |-> <<>>]
Some(v) == [some |-> TRUE, v |-> v]

\* the index of the first character of s that lies in the set cs, 0 if none
find_any(s, cs) ==
    LET hit == {i \in 1..Len(s) : s[i] \in cs}
    IN  IF hit = {} THEN 0 ELSE CHOOSE i \in hit : \A j \in hit : i <= j

RECURSIVE trim_start(_, _)
trim_start(s, cs) == IF s # <<>> /\ Head(s) \in cs THEN trim_start(Tail(s), cs) ELSE s

RECURSIVE trim_end(_, _)
trim_end(s, cs) ==
    IF s # <<>> /\ s[Len(s)] \in cs THEN trim_end(SubSeq(s, 1, Len(s) - 1), cs) ELSE s

\* a path encoding that also escapes the "%" of an escape
PathEncodeSet_with_percent == {" ", "\"", "#", "<", ">", "?", "{", "}", "%"}
PathEncodeSet == {" ", "\"", "#", "<", ">", "?", "{", "}"}
QueryEncodeSet == {" ", "\"", "#", "<", ">", "'"}

\* the pieces of s between the separators, and the pieces joined again
RECURSIVE split(_, _)
split(s, sep) ==
    LET i == find(s, <<sep>>)
    IN  IF i = 0 THEN <<s>>
        ELSE <<SubSeq(s, 1, i - 1)>> \o split(From(s, i + 1), sep)

RECURSIVE join(_, _)
join(pieces, sep) ==
    IF pieces = <<>> THEN <<>>
    ELSE Head(pieces) \o (IF Len(pieces) > 1 THEN <<sep>> ELSE <<>>)
         \o join(Tail(pieces), sep)

\* the path of an http(s) URL: a segment that is "." is dropped and one that
\* is ".." also takes the segment before it, each dot written as "." or as
\* its escape %2e; dropping the last segment leaves the path ending in "/"
SingleDot == {<<".">>, <<"%", "2", "e">>, <<"%", "2", "E">>}

RECURSIVE remove_dot_segments(_, _)
remove_dot_segments(segments, out) ==
    IF segments = <<>> THEN out
    ELSE LET closing == IF Len(segments) = 1 THEN << <<>> >> ELSE <<>>
         IN  IF Head(segments) \in {a \o b : a \in SingleDot, b \in SingleDot}
             THEN remove_dot_segments(Tail(segments),
                    (IF out = <<>> THEN out ELSE SubSeq(out, 1, Len(out) - 1))
                    \o closing)
             ELSE IF Head(segments) \in SingleDot
             THEN remove_dot_segments(Tail(segments), out \o closing)
             ELSE remove_dot_segments(Tail(segments), Append(out, Head(segments)))

\* what follows the authority (or the scheme, for an opaque path), split at
\* the first "#" and, before it, the first "?"
split_tail(s, special) ==
    LET h == find(s, <<"#">>)
        before == IF h = 0 THEN s ELSE SubSeq(s, 1, h - 1)
        q == find(before, <<"?">>)
        p == IF q = 0 THEN before ELSE SubSeq(before, 1, q - 1)
    IN  [path |-> IF special
                  THEN (IF p = <<>> THEN <<"/">>
                        ELSE (<<"/">> \o join(remove_dot_segments(Tail(split(percent_encode_set(p,
                              PathEncodeSet), "/")), <<>>), "/")))
                  ELSE p,
         query |-> IF q = 0 THEN None
                   ELSE Some(percent_encode_set(From(before, q + 1),
                                                IF special THEN QueryEncodeSet
                                                ELSE QueryEncodeSet \ {"'"})),
         fragment |-> IF h = 0 THEN None
                      ELSE Some(percent_encode_set(From(s, h + 1), {" ", "\"", "<", ">"}))]

\* Url::parse: an absolute URL needs a scheme; an http(s) URL needs a host
url_parse(input) ==
    LET s == trim_end(trim_start(input, {" "}), {" "})
        c == find(s, <<":">>)
        scheme == SubSeq(s, 1, c - 1)
    IN  IF c <= 1 \/ Head(s) \notin Chars(Letters)
           \/ ~(Chars(scheme) \subseteq (Alnum \cup {"+", "-", "."}))
        THEN [ok |-> FALSE]
        ELSE LET rest == From(s, c + 1)
             IN  IF scheme \in {<<"h", "t", "t", "p">>, <<"h", "t", "t", "p",
                                "s">>}
                 THEN LET after == trim_start(rest, {"/"})
                          e == find_any(after, {"/", "?", "#"})
                          host == IF e = 0 THEN after ELSE SubSeq(after, 1, e - 1)
                          tail == split_tail(IF e = 0 THEN <<>> ELSE From(after, e), TRUE)
                      IN  IF host = <<>> \/ ~(Chars(host) \subseteq (Alnum \cup {"-", "."}))
                          THEN [ok |-> FALSE]
                          ELSE [ok |-> TRUE, scheme |-> scheme, host |-> Some(host),
                                path |-> tail.path, query |-> tail.query,
                                fragment |-> tail.fragment]
                 ELSE LET tail == split_tail(rest, FALSE)
                      IN  [ok |-> TRUE, scheme |-> scheme, host |-> None,
                           path |-> tail.path, query |-> tail.query,
                           fragment |-> tail.fragment]

\* Url::to_string
url_to_string(u) ==
    u.scheme \o <<":">>
    \o (IF u.host.some THEN <<"/", "/">> \o u.host.v ELSE <<>>)
    \o u.path
    \o (IF u.query.some THEN <<"?">> \o u.query.v ELSE <<>>)
    \o (IF u.fragment.some THEN <<"#">> \o u.fragment.v ELSE <<>>)

\* form_urlencoded::byte_serialize
RECURSIVE form_urlencode(_)
form_urlencode(s) ==
    IF s = <<>> THEN <<>>
    ELSE (CASE Head(s) = " " -> <<"+">>
            [] Head(s) \in Alnum \cup {"*", "-", ".", "_"} -> <<Head(s)>>
            [] OTHER -> PercentHex(Head(s))) \o form_urlencode(Tail(s))

RECURSIVE join_pairs(_, _)
join_pairs(pairs, encoder) ==
    IF pairs = <<>> THEN <<>>
    ELSE LET encode_side(s) == IF encoder = "form_urlencoded"
                               THEN form_urlencode(s)
                               ELSE urlencoding_encode(s)
         IN  encode_side(Head(pairs)[1]) \o <<"=">>
             \o encode_side(Head(pairs)[2])
             \o (IF Len(pairs) > 1 THEN <<"&">> ELSE <<>>)
             \o join_pairs(Tail(pairs), encoder)

\* Url::query_pairs (form_urlencoded::parse): the query is what stands
\* between the first "?" and the fragment; its pieces between "&" are split
\* at their first "=", and both sides are decoded ("+" is a space, %XX the
\* character of that code, in either case of the hexadecimal digits)
Escapable ==
    {" ", "\"", "#", "%", "&", "'", "(", ")", "+", "/", ":", ";", "<", "=", ">",
     "?", "{", "}"}

RECURSIVE form_urldecode(_)
form_urldecode(s) ==
    IF s = <<>> THEN <<>>
    ELSE IF Head(s) = "+" THEN <<" ">> \o form_urldecode(Tail(s))
    ELSE IF Head(s) = "%" /\ Len(s) >= 3
            /\ \E c \in Escapable : PercentHex(c) = to_uppercase(SubSeq(s, 1, 3))
         THEN <<CHOOSE c \in Escapable : PercentHex(c) = to_uppercase(SubSeq(s, 1, 3))>>
              \o form_urldecode(From(s, 4))
    ELSE <<Head(s)>> \o form_urldecode(Tail(s))

query_component(location) ==
    LET h == find(location, <<"#">>)
        before == IF h = 0 THEN location ELSE SubSeq(location, 1, h - 1)
        q == find(before, <<"?">>)
    IN  IF q = 0 THEN <<>> ELSE From(before, q + 1)

RECURSIVE decode_pairs(_)
decode_pairs(pieces) ==
    IF pieces = <<>> THEN <<>>
    ELSE IF Head(pieces) = <<>> THEN decode_pairs(Tail(pieces))
    ELSE LET piece == Head(pieces)
             e == find(piece, <<"=">>)
             name == IF e = 0 THEN piece ELSE SubSeq(piece, 1, e - 1)
             value == IF e = 0 THEN <<>> ELSE From(piece, e + 1)
         IN  << <<form_urldecode(name), form_urldecode(value)>> >>
             \o decode_pairs(Tail(pieces))

query_pairs(location) == decode_pairs(split(query_component(location), "&"))

\* PathAndQuery::from_shared: the fragment is dropped, the rest is checked
uri_path_and_query(s) ==
    LET h == find(s, <<"#">>)
        before == IF h = 0 THEN s ELSE SubSeq(s, 1, h - 1)
        q == find(before, <<"?">>)
        p == IF q = 0 THEN before ELSE SubSeq(before, 1, q - 1)
        query == IF q = 0 THEN <<>> ELSE From(before, q + 1)
    IN  IF Chars(p) \cap {" ", "<", ">"} # {} \/ Chars(query) \cap {" ", "\"", "<", ">"} # {}
        THEN Err
        ELSE Ok(before)

\* Uri::from_str, and the text the parsed Uri is written back as
uri_from_str(s) ==
    IF s = <<>> THEN Err
    ELSE IF Head(s) = "/" THEN uri_path_and_query(s)
    ELSE LET stop == find_any(s, Chars(s) \ (Alnum \cup {"+", "-", "."}))
             c == IF Len(s) > 3 /\ stop > 1 /\ s[stop] = ":"
                     /\ Len(s) >= stop + 2
                     /\ SubSeq(s, stop + 1, stop + 2) = <<"/", "/">>
                  THEN stop ELSE 0
             rest == IF c = 0 THEN s ELSE From(s, c + 3)
             e == find_any(rest, {"/", "?", "#"})
             authority == IF e = 0 THEN rest ELSE SubSeq(rest, 1, e - 1)
             tail == IF e = 0 THEN <<>> ELSE From(rest, e)
             pq == uri_path_and_query(tail)
         IN  IF Chars(authority) \cap ({" ", "\"", "<", ">", "{", "}"}) # {}
                \/ Cardinality(Occurrences(authority, <<":">>)) > 1
                \/ "%" \in Chars(authority)
             THEN Err
             ELSE IF c = 0
             THEN (IF tail # <<>> THEN Err ELSE Ok(authority))
             ELSE IF authority = <<>> \/ ~pq.ok THEN Err
             ELSE Ok(SubSeq(s, 1, c + 2) \o authority
                     \o (IF pq.v = <<>> \/ Head(pq.v) = "?" THEN <<"/">> ELSE <<>>) \o pq.v)

(***************************************************************************)
(* Destination patterns the links of this model are saved with.            *)
(***************************************************************************)
\* http://h/foo
LongPlain ==
    <<"h", "t", "t", "p", ":", "/", "/", "h", "/", "f", "o", "o">>

\* http://h
LongHost ==
    <<"h", "t", "t", "p", ":", "/", "/", "h">>

\* http://h/foo?q=1
LongQuery ==
    <<"h", "t", "t", "p", ":", "/", "/", "h", "/", "f", "o", "o", "?", "q",
      "=", "1">>

\* http://h/#/app
LongFragment ==
    <<"h", "t", "t", "p", ":", "/", "/", "h", "/", "#", "/", "a", "p", "p">>

\* http://h/a%2f/b
LongEscaped ==
    <<"h", "t", "t", "p", ":", "/", "/", "h", "/", "a", "%", "2", "f", "/", "b">>

\* http://h/a/%2e%2e/b
LongEscapedDots ==
    <<"h", "t", "t", "p", ":", "/", "/", "h", "/", "a", "/", "%", "2", "e", "%",
      "2", "e", "/", "b">>

\* http://h/{{path}}
LongPath ==
    <<"h", "t", "t", "p", ":", "/", "/", "h", "/", "{", "{", "p", "a", "t",
      "h", "}", "}">>

\* http://h/{{#if path}}s?q={{query_escape path}}{{/if}}
LongIf ==
    <<"h", "t", "t", "p", ":", "/", "/", "h", "/", "{", "{", "#", "i", "f",
      " ", "p", "a", "t", "h", "}", "}", "s", "?", "q", "=", "{", "{", "q",
      "u", "e", "r", "y", "_", "e", "s", "c", "a", "p", "e", " ", "p", "a",
      "t", "h", "}", "}", "{", "{", "/", "i", "f", "}", "}">>

\* http://h/{{ bar }}
LongUndefined ==
    <<"h", "t", "t", "p", ":", "/", "/", "h", "/", "{", "{", " ", "b", "a",
      "r", " ", "}", "}">>

\* http://h/{{#if bar}}x{{/if}}
LongIfUndefined ==
    <<"h", "t", "t", "p", ":", "/", "/", "h", "/", "{", "{", "#", "i", "f",
      " ", "b", "a", "r", "}", "}", "x", "{", "{", "/", "i", "f", "}", "}">>

\* http://h/{{uppercase bar}}
LongUpperUndefined ==
    <<"h", "t", "t", "p", ":", "/", "/", "h", "/", "{", "{", "u", "p", "p",
      "e", "r", "c", "a", "s", "e", " ", "b", "a", "r", "}", "}">>

\* http://h/{{#if (match "\\d+" path)}}i/{{path}}{{else}}s/{{path}}{{/if}}
LongMatch ==
    <<"h", "t", "t", "p", ":", "/", "/", "h", "/", "{", "{", "#", "i", "f",
      " ", "(", "m", "a", "t", "c", "h", " ", "\"", "\\", "\\", "d", "+",
      "\"", " ", "p", "a", "t", "h", ")", "}", "}", "i", "/", "{", "{",
      "p", "a", "t", "h", "}", "}", "{", "{", "e", "l", "s", "e", "}", "}",
      "s", "/", "{", "{", "p", "a", "t", "h", "}", "}", "{", "{", "/", "i",
      "f", "}", "}">>

\* http://h/{{#if (match "(" path)}}i{{else}}s{{/if}}
LongMatchInvalid ==
    <<"h", "t", "t", "p", ":", "/", "/", "h", "/", "{", "{", "#", "i", "f",
      " ", "(", "m", "a", "t", "c", "h", " ", "\"", "(", "\"", " ", "p",
      "a", "t", "h", ")", "}", "}", "i", "{", "{", "e", "l", "s", "e", "}",
      "}", "s", "{", "{", "/", "i", "f", "}", "}">>

\* http://h/{{match "\\d+" path}}
LongMatchValue ==
    <<"h", "t", "t", "p", ":", "/", "/", "h", "/", "{", "{", "m", "a", "t",
      "c", "h", " ", "\"", "\\", "\\", "d", "+", "\"", " ", "p", "a", "t",
      "h", "}", "}">>

\* http://h/{{uppercase path}}
LongUpper ==
    <<"h", "t", "t", "p", ":", "/", "/", "h", "/", "{", "{", "u", "p", "p",
      "e", "r", "c", "a", "s", "e", " ", "p", "a", "t", "h", "}", "}">>

\* http://h/{{trimprefix path 'x'}}
LongTrim ==
    <<"h", "t", "t", "p", ":", "/", "/", "h", "/", "{", "{", "t", "r", "i",
      "m", "p", "r", "e", "f", "i", "x", " ", "p", "a", "t", "h", " ", "'",
      "x", "'", "}", "}">>

\* http://h/{{bogus path}}
LongUnknownHelper ==
    <<"h", "t", "t", "p", ":", "/", "/", "h", "/", "{", "{", "b", "o", "g",
      "u", "s", " ", "p", "a", "t", "h", "}", "}">>

\* http://h/{{trimprefix path}}
LongFewArgs ==
    <<"h", "t", "t", "p", ":", "/", "/", "h", "/", "{", "{", "t", "r", "i",
      "m", "p", "r", "e", "f", "i", "x", " ", "p", "a", "t", "h", "}", "}">>

\* http://h/{{uppercase path path}}
LongManyArgs ==
    <<"h", "t", "t", "p", ":", "/", "/", "h", "/", "{", "{", "u", "p", "p",
      "e", "r", "c", "a", "s", "e", " ", "p", "a", "t", "h", " ", "p", "a",
      "t", "h", "}", "}">>

\* http://h/{{path
LongUnclosed ==
    <<"h", "t", "t", "p", ":", "/", "/", "h", "/", "{", "{", "p", "a", "t",
      "h">>

\* http://h/{{#if path}}x
LongOpenBlock ==
    <<"h", "t", "t", "p", ":", "/", "/", "h", "/", "{", "{", "#", "i", "f",
      " ", "p", "a", "t", "h", "}", "}", "x">>

\* data:a/b
LongOpaque ==
    <<"d", "a", "t", "a", ":", "a", "/", "b">>

(***************************************************************************)
(* Expansion of a destination pattern.                                     *)
(***************************************************************************)
\* render.rs Renderer::expand_link: the parsed Url, or an error from the
\* rendering or from the parse
expand_link(path, query_params, long) ==
    LET template == with_path(path, long)
        expanded == render_template(template, "Renderer", path)
    IN  IF ~expanded.ok THEN [ok |-> FALSE]
        ELSE IF query_params # <<>>
             THEN LET u == url_parse(expanded.v)
                  IN  IF ~u.ok THEN u
                      ELSE [u EXCEPT !.query =
                               Some((IF u.query.some /\ u.query.v # <<>>
                                     THEN u.query.v \o <<"&">> ELSE <<>>)
                                    \o join_pairs(query_params,
                                                  "form_urlencoded"))]
             ELSE url_parse(expanded.v)

\* handlers.rs expand_link: the rendered text with the request's query
\* appended; the text is not parsed
handlers_expand_link(path, query_params, long) ==
    LET template == IF ~contains(long, OpenMarker) /\ path # <<>>
                    THEN IF ends_with(long, <<"/">>)
                         THEN long \o PathPlaceholder
                         ELSE long \o <<"/">> \o PathPlaceholder
                    ELSE long
        expanded == render_template(template, "handlers", path)
    IN  IF ~expanded.ok THEN Err
        ELSE IF query_params # <<>>
             THEN LET query_string == join_pairs(query_params, "urlencoding")
                  IN  IF contains(expanded.v, <<"?">>)
                      THEN Ok(expanded.v \o <<"&">> \o query_string)
                      ELSE Ok(expanded.v \o <<"?">> \o query_string)
             ELSE expanded

\* an engine whose outcome depends on the counters of the store
expand_reads_store(engine, path, query_params, long) ==
    IF stats # <<>> THEN Err
    ELSE IF engine = "Renderer"
    THEN LET u == expand_link(path, query_params, long)
         IN  IF u.ok THEN Ok(url_to_string(u)) ELSE Err
    ELSE handlers_expand_link(path, query_params, long)

\* the outcome of either engine as [ok, v]: the location text
expand(engine, path, query_params, long) ==
    IF engine = "Renderer"
    THEN LET u == expand_link(path, query_params, long)
         IN  IF u.ok THEN Ok(url_to_string(u)) ELSE Err
    ELSE handlers_expand_link(path, query_params, long)

(***************************************************************************)
(* Pure-function specifications: Init draws the arguments, the one action  *)
(* is the call returning.                                                  *)
(***************************************************************************)

ServerIdle ==
    /\ links = <<>>
    /\ stats = <<>>
    /\ reqs = <<>>
    /\ started = 0

Return(result) ==
    /\ call.state = "called"
    /\ call' = [call EXCEPT !.state = "returned", !.ret = result]
    /\ UNCHANGED <<links, stats, reqs, started>>

InitNormalize ==
    /\ call \in {[fn |-> "normalized_id", short |-> s, state |-> "called", ret |-> <<>>] :
                    s \in StringsUpTo({"a", "-", "/", "%", " "}, MaxShortLen)}
    /\ ServerIdle

CallNormalize == Return(normalized_id(call.short))

SpecNormalize == InitNormalize /\ [][CallNormalize]_vars

InitRemainder ==
    /\ call \in {[fn |-> "path_remainder", full_path |-> f, short_slug |-> s,
                  state |-> "called", ret |-> <<>>] :
                    f \in {<<"/">> \o p :
                              p \in StringsUpTo({"a", "b", "/"}, MaxPathLen)},
                    s \in LET codes == StringsUpTo({"a", "b"}, MaxSlugLen)
                                          \ {<<>>}
                          IN  codes \cup {<<"/">> \o c : c \in codes}}
    /\ ServerIdle

CallRemainder == Return(path_remainder(call.full_path, call.short_slug))

SpecRemainder == InitRemainder /\ [][CallRemainder]_vars

InitWithPath ==
    /\ call \in {[fn |-> "with_path", path |-> p, long |-> l,
                  state |-> "called", ret |-> <<>>] :
                    p \in StringsUpTo({"a", "b"}, MaxSlugLen),
                    l \in StringsUpTo(({"a", "/", "{"}), MaxLongLen)}
    /\ ServerIdle

CallWithPath == Return(with_path(call.path, call.long))

SpecWithPath == InitWithPath /\ [][CallWithPath]_vars

Patterns ==
    LET LongSlash ==
            <<"h", "t", "t", "p", ":", "/", "/", "h", "/", "f", "o", "o", "/">>
        LongRelative == <<"f", "o", "o">>
        LongSpace == <<"a", " ", "b">>
        LongFragmentQuery ==
            <<"h", "t", "t", "p", ":", "/", "/", "h", "/", "#", "a", "?", "b">>
        LongEmptyQuery ==
            <<"h", "t", "t", "p", ":", "/", "/", "h", "/", "f", "o", "o", "?">>
    IN  {LongPlain, LongSlash, LongHost, LongQuery, LongFragment,
         LongRelative, LongSpace, LongOpaque, LongFragmentQuery,
         LongEmptyQuery, LongEscaped, LongEscapedDots}
        \cup {LongPath, LongIf, LongUndefined, LongUpper, LongTrim,
              LongUnknownHelper, LongFewArgs, LongManyArgs, LongUnclosed,
              LongOpenBlock, LongIfUndefined, LongUpperUndefined, LongMatch,
              LongMatchInvalid, LongMatchValue}

Remainders ==
    {<<>>, <<"x">>, <<"x", "/", "y">>, <<"a", "&", "b">>, <<"1">>, <<"x", "1">>}

InitExpand ==
    /\ call \in {[fn |-> "expand_link", engine |-> e, path |-> p,
                  query_params |-> q, long |-> l,
                  state |-> "called", ret |-> <<>>] :
                    e \in {"Renderer", "handlers"}, p \in Remainders,
                    q \in {<<>>, << <<<<"k">>, <<"v">>>> >>, << <<<<"k">>,
                           <<"a", " ", "b">>>> >>, << <<<<"q">>, <<"1">>>>,
                           <<<<"k">>, <<"a", "&", "b">>>> >>, << <<<<"k">>,
                           <<"a", "&", "b">>>>, <<<<"q">>, <<"1">>>> >>}, l \in Patterns}
    /\ ServerIdle

CallExpand == Return(expand(call.engine, call.path, call.query_params, call.long))

SpecExpand == InitExpand /\ [][CallExpand]_vars

Returned == call.state = "returned"

(***************************************************************************)
(* The store (db.rs) and the redirect handlers (render.rs Renderer::get,   *)
(* handlers.rs get).                                                       *)
(***************************************************************************)
MaxRequests == 2
MaxStatsRows == 2

PERMANENT_REDIRECT == 308
MOVED_PERMANENTLY == 301
NOT_FOUND == 404
INTERNAL_SERVER_ERROR == 500

Shorts == {<<"a">>, <<"b">>}
SavedLinks ==
    {[short |-> <<"a">>, long |-> l] : l \in {LongPlain, LongFewArgs,
                                              LongManyArgs, <<"a", " ", "b">>,
                                              LongOpaque}}
    \cup {[short |-> <<"b">>, long |-> LongPlain]}
\* what follows the short code in the request path, and the request's query
RequestShapes ==
    {[rest |-> <<>>, query |-> <<>>],
     [rest |-> <<"/", "x">>, query |-> <<>>],
     [rest |-> <<>>, query |-> << <<<<"k">>, <<"v">>>> >>]}

\* ---- db.rs --------------------------------------------------------------
\* Links: ID is the primary key, INSERT OR REPLACE
LinkDAO_save(link) ==
    /\ links' = [id \in DOMAIN links \cup {normalized_id(link.short)} |->
                    IF id = normalized_id(link.short) THEN link ELSE links[id]]
    /\ UNCHANGED <<call, stats, reqs, started>>

\* SELECT ... WHERE ID = normalized_id(short), exactly one row expected
LinkDAO_load(short) ==
    IF normalized_id(short) \in DOMAIN links
    THEN [ok |-> TRUE, link |-> links[normalized_id(short)]]
    ELSE [ok |-> FALSE, link |-> [short |-> <<>>, long |-> <<>>]]

\* Stats has no key: every save adds a row, clicks NULL
Null == [null |-> TRUE, n |-> 0]
StatsDAO_save(short) ==
    /\ Len(stats) < MaxStatsRows
    /\ stats' = Append(stats, [ID |-> normalized_id(short), clicks |-> Null])
    /\ UNCHANGED <<call, links, reqs, started>>

\* UPDATE Stats SET clicks = IFNULL(clicks, 0) + 1 WHERE ID = ?: the rows
\* after the statement, and the result (Ok only when one row was affected);
\* a statement the store fails to execute changes nothing
rows_affected(short) ==
    Cardinality({i \in 1..Len(stats) : stats[i].ID = normalized_id(short)})
incr_rows_every_key(short, fails) ==
    IF fails THEN stats
    ELSE [i \in 1..Len(stats) |->
            [stats[i] EXCEPT !.clicks = [null |-> FALSE, n |-> @.n + 1]]]
\* an increment that creates the row it does not find
incr_rows_upsert(short, fails) ==
    IF fails THEN stats
    ELSE IF rows_affected(short) = 0
         THEN Append(stats, [ID |-> normalized_id(short),
                             clicks |-> [null |-> FALSE, n |-> 1]])
         ELSE [i \in 1..Len(stats) |->
                 IF stats[i].ID = normalized_id(short)
                 THEN [stats[i] EXCEPT !.clicks = [null |-> FALSE, n |-> @.n + 1]]
                 ELSE stats[i]]
\* an increment that writes back one more than a count read before the
\* other requests ran (the unset count of the new row)
incr_rows_stale_read(short, fails) ==
    IF fails THEN stats
    ELSE [i \in 1..Len(stats) |->
            IF stats[i].ID = normalized_id(short)
            THEN [stats[i] EXCEPT !.clicks = [null |-> FALSE, n |-> 1]]
            ELSE stats[i]]
incr_rows(short, fails) ==
    IF fails THEN stats
    ELSE [i \in 1..Len(stats) |->
            IF stats[i].ID = normalized_id(short)
            THEN [stats[i] EXCEPT !.clicks = [null |-> FALSE, n |-> @.n + 1]]
            ELSE stats[i]]
incr_result(short, fails) == ~fails /\ rows_affected(short) = 1

\* ---- replies ------------------------------------------------------------
NoLocation == [some |-> FALSE, v |-> <<>>]

\* warp::redirect(location.parse::<Uri>().unwrap()): the unwrap panics on a
\* location that is no Uri; the header carries the Uri as written back
warp_redirect(location, status) ==
    CHOOSE reply \in
        {IF ~uri.ok THEN [status |-> 0, location |-> NoLocation,
                          panic |-> TRUE]
         ELSE [status |-> status, location |-> [some |-> TRUE, v |-> uri.v],
               panic |-> FALSE] : uri \in {uri_from_str(location)}} : TRUE

redirect_with_status(location, status) == warp_redirect(location, status)

\* warp::reply::with_status(warp::reply(), status)
with_status(status) ==
    [status |-> status, location |-> NoLocation, panic |-> FALSE]

\* a handler that expands whatever the lookup left, found or not
Renderer_reply_expands_miss(found, short, full_path, query_params) ==
    LET path == path_remainder(full_path, short)
    IN  CHOOSE reply \in
           {IF location.ok
            THEN redirect_with_status(url_to_string(location), PERMANENT_REDIRECT)
            ELSE redirect_with_status(<<"/">>, INTERNAL_SERVER_ERROR) :
               location \in {expand_link(path, query_params, found.link.long)}} :
           TRUE

\* Renderer::get up to the increment: the reply from the lookup result
Renderer_reply(found, short, full_path, query_params) ==
    IF found.ok
    THEN LET path == path_remainder(full_path, short)
         IN  CHOOSE reply \in
                {IF location.ok
                 THEN redirect_with_status(url_to_string(location), PERMANENT_REDIRECT)
                 ELSE redirect_with_status(<<"/">>, INTERNAL_SERVER_ERROR) :
                    location \in {expand_link(path, query_params, found.link.long)}} :
                TRUE
    ELSE redirect_with_status(<<"/">>, NOT_FOUND)

\* handlers.rs get: the reply from the lookup result
handlers_reply(found, full_path, query_params) ==
    IF found.ok
    THEN LET path == handlers_path_remainder(full_path)
         IN  CHOOSE reply \in
                {IF location.ok
                 THEN warp_redirect(location.v, MOVED_PERMANENTLY)
                 ELSE with_status(INTERNAL_SERVER_ERROR) :
                    location \in {handlers_expand_link(path, query_params,
                                                       found.link.long)}} :
                TRUE
    ELSE with_status(NOT_FOUND)

\* ---- requests -----------------------------------------------------------
\* a request in flight or answered: pc is "incr" (reply computed, the
\* increment not yet run), "return" (increment awaited), "responded" or
\* "panicked"; found is the lookup result, incr what the increment returned
Request(handler, short, full_path, query_params, found, reply, pc) ==
    [handler |-> handler, short |-> short, full_path |-> full_path,
     query_params |-> query_params, found |-> found, reply |-> reply,
     pc |-> pc, incr |-> "none"]

\* Renderer::get, first await: db.link.get(short), then the reply
Renderer_get(short, full_path, query_params) ==
    /\ started < MaxRequests
    /\ LET found == LinkDAO_load(short)
           reply == Renderer_reply(found, short, full_path, query_params)
       IN  reqs' = Append(reqs, Request("Renderer", short, full_path, query_params,
                                        found, reply,
                                        IF reply.panic THEN "panicked" ELSE "incr"))
    /\ started' = started + 1
    /\ UNCHANGED <<call, links, stats>>

\* an increment that also stamps the link it counts
Renderer_get_incr_stamps(r, fails) ==
    /\ reqs[r].pc = "incr"
    /\ stats' = incr_rows(reqs[r].short, fails)
    /\ links' = [id \in DOMAIN links |->
                   IF id = normalized_id(reqs[r].short)
                   THEN [links[id] EXCEPT !.updated = @ + 1]
                   ELSE links[id]]
    /\ reqs' = [reqs EXCEPT ![r].pc = "return",
                            ![r].incr = IF incr_result(reqs[r].short, fails)
                                        THEN "ok" ELSE "err"]
    /\ UNCHANGED <<call, started>>

\* Renderer::get, second await: let _ = self.db.stats.incr(short).await
Renderer_get_incr(r, fails) ==
    /\ reqs[r].pc = "incr"
    /\ stats' = incr_rows(reqs[r].short, fails)
    /\ reqs' = [reqs EXCEPT ![r].pc = "return",
                            ![r].incr = IF incr_result(reqs[r].short, fails)
                                        THEN "ok" ELSE "err"]
    /\ UNCHANGED <<call, links, started>>

\* a handler that lets the result of the increment through to the reply
returned_reply_checked(reply, incr) ==
    IF incr = "ok" THEN reply ELSE with_status(INTERNAL_SERVER_ERROR)

\* what Renderer::get returns once the increment has been awaited: the
\* reply, whatever the increment returned
returned_reply(reply, incr) == reply

Renderer_get_return(r) ==
    /\ reqs[r].pc = "return"
    /\ reqs' = [reqs EXCEPT ![r].pc = "responded",
                            ![r].reply = returned_reply(@, reqs[r].incr)]
    /\ UNCHANGED <<call, links, stats, started>>

\* handlers.rs get: one lookup, no increment
handlers_get(short, full_path, query_params) ==
    /\ started < MaxRequests
    /\ LET found == LinkDAO_load(normalized_id(short))
           reply == handlers_reply(found, full_path, query_params)
       IN  reqs' = Append(reqs, Request("handlers", short, full_path, query_params,
                                        found, reply,
                                        IF reply.panic THEN "panicked" ELSE "responded"))
    /\ started' = started + 1
    /\ UNCHANGED <<call, links, stats>>

Init ==
    /\ call = [fn |-> "none"]
    /\ links = <<>>
    /\ stats = <<>>
    /\ reqs = <<>>
    /\ started = 0

Next ==
    \/ \E link \in SavedLinks : LinkDAO_save(link)
    \/ \E short \in Shorts : StatsDAO_save(short)
    \/ \E short \in Shorts, shape \in RequestShapes :
            Renderer_get(short, <<"/">> \o short \o shape.rest, shape.query)
    \/ \E r \in DOMAIN reqs, fails \in BOOLEAN : Renderer_get_incr(r, fails)
    \/ \E r \in DOMAIN reqs : Renderer_get_return(r)
    \/ \E short \in Shorts, shape \in RequestShapes :
            handlers_get(short, <<"/">> \o short \o shape.rest, shape.query)

Spec == Init /\ [][Next]_vars

NextRedirect ==
    \/ \E link \in ({[short |-> <<"a">>, long |-> l] : l \in {LongHost,
                    LongPlain, LongQuery, LongFragment, LongPath}}) : LinkDAO_save(link)
    \/ StatsDAO_save(<<"a">>)
    \/ \E shape \in RequestShapes :
            Renderer_get(<<"a">>, <<"/", "a">> \o shape.rest, shape.query)
    \/ \E r \in DOMAIN reqs, fails \in BOOLEAN : Renderer_get_incr(r, fails)
    \/ \E r \in DOMAIN reqs : Renderer_get_return(r)
    \/ \E shape \in RequestShapes :
            handlers_get(<<"a">>, <<"/", "a">> \o shape.rest, shape.query)

SpecRedirect == Init /\ [][NextRedirect]_vars

(***************************************************************************)
(* C1                                                                      *)
(***************************************************************************)
Count(s, c) == Cardinality({i \in 1..Len(s) : s[i] = c})

\* the image of one character of the short code in its normalized ID
RECURSIVE C1_Image(_)
C1_Image(s) ==
    IF s = <<>> THEN <<>>
    ELSE (CASE Head(s) = "-" -> <<"t", "o">>
            [] Head(s) \in (Alnum \cup {"-", "_", ".", "~"}) \ {"-"} -> <<Head(s)>>
            [] OTHER -> PercentHex(Head(s))) \o C1_Image(Tail(s))

\* C1: normalized_id(short) is the percent-encoding of short in which every "-"
\* has become "to": no hyphen is left, each character of short contributes its
\* own image in order, the result is one character longer per hyphen than the
\* encoding, the empty code maps to the empty ID, and a code without a hyphen
\* maps to its percent-encoding.
C1_Normalize ==
    (call.fn = "normalized_id" /\ Returned) =>
        /\ "-" \notin Chars(call.ret)
        /\ call.ret = C1_Image(call.short)
        /\ Len(call.ret) = Len(urlencoding_encode(call.short)) + Count(call.short, "-")
        /\ (call.short = <<>> => call.ret = <<>>)
        /\ ("-" \notin Chars(call.short) => call.ret = urlencoding_encode(call.short))

\* a code with two hyphens and a reserved character has been normalized
C1_Witness ==
    /\ call.fn = "normalized_id" /\ Returned
    /\ Count(call.short, "-") = 2
    /\ "/" \in Chars(call.short)
    /\ call.ret # call.short

(***************************************************************************)
(* C3                                                                      *)
(***************************************************************************)
\* C3: with no "{{" in the pattern and a non-empty remainder, the effective
\* template is the pattern, then "/" unless the pattern already ends in "/",
\* then the path placeholder (so the junction never holds "//"); in every
\* other case it is the pattern itself.
C3_EffectiveTemplate ==
    (call.fn = "with_path" /\ Returned) =>
        LET long == call.long
            template == call.ret
        IN  IF ~contains(long, OpenMarker) /\ call.path # <<>>
            THEN /\ starts_with(template, long)
                 /\ ends_with(template, PathPlaceholder)
                 /\ Len(template) = Len(long) + Len(PathPlaceholder)
                                    + (IF ends_with(long, <<"/">>) THEN 0 ELSE 1)
                 /\ template[Len(template) - Len(PathPlaceholder)] = "/"
                 /\ (Len(long) > 0 =>
                        ~contains(From(template, Len(long)), <<"/", "/">>))
            ELSE template = long

\* a literal pattern that already ends in "/" got the placeholder appended
C3_Witness ==
    /\ call.fn = "with_path" /\ Returned
    /\ call.path # <<>>
    /\ ends_with(call.long, <<"/">>)
    /\ ~contains(call.long, OpenMarker)
    /\ call.ret = call.long \o PathPlaceholder

(***************************************************************************)
(* C4, C5                                                                  *)
(***************************************************************************)
\* C4: path_remainder cuts out the first occurrence of the slug (the short
\* code with one "/" in front) and nothing else: the result is the text before
\* that occurrence followed by the text after it, later occurrences included;
\* a path in which the slug does not occur comes back unchanged.
C4_FirstOccurrenceOnly ==
    (call.fn = "path_remainder" /\ Returned) =>
        LET full == call.full_path
            slug == IF Head(call.short_slug) = "/" THEN call.short_slug
                    ELSE <<"/">> \o call.short_slug
            occ == Occurrences(full, slug)
        IN  /\ Head(slug) = "/" /\ (Len(slug) > 1 => slug[2] # "/")
            /\ occ = {} => call.ret = full
            /\ occ # {} =>
                 \E i \in occ :
                    /\ \A j \in occ : i <= j
                    /\ Len(call.ret) = Len(full) - Len(slug)
                    /\ SubSeq(call.ret, 1, i - 1) = SubSeq(full, 1, i - 1)
                    /\ From(call.ret, i) = From(full, i + Len(slug))

\* the slug sat mid-path and occurred again later; only the first was cut
C4_Witness ==
    /\ call.fn = "path_remainder" /\ Returned
    /\ LET occ == Occurrences(call.full_path, slug_of(call.short_slug))
       IN  /\ Cardinality(occ) >= 2
           /\ 1 \notin occ
    /\ contains(call.ret, slug_of(call.short_slug))

\* C5: once the slug is cut out, one leading "/" left in front of the result is
\* stripped, so the remainder never begins with the separator that followed
\* the slug ("/github/repo/a" with slug "github" gives "repo/a").
C5_LeadingSlashStripped ==
    (call.fn = "path_remainder" /\ Returned) =>
        LET full == call.full_path
            slug == slug_of(call.short_slug)
            i == find(full, slug)
            excised == SubSeq(full, 1, i - 1) \o From(full, i + Len(slug))
        IN  i # 0 =>
                call.ret = (IF starts_with(excised, <<"/">>) THEN Tail(excised) ELSE excised)

(***************************************************************************)
(* C2                                                                      *)
(***************************************************************************)
\* C2: for a pattern without placeholder syntax and a non-empty remainder, a
\* successful expansion yields a URL whose path component ends with the
\* remainder as its last segment(s), also when the pattern carries a "?"
\* query or a "#" fragment.
C2_RemainderIsPathSegment ==
    (call.fn = "expand_link" /\ Returned
        /\ ~contains(call.long, OpenMarker) /\ call.path # <<>> /\ call.ret.ok)
    => ends_with((LET e == find_any(call.ret.v, {"?",
                  "#"}) IN IF e = 0 THEN call.ret.v ELSE SubSeq(call.ret.v, 1,
                  e - 1)), <<"/">> \o html_escape(call.path))

(***************************************************************************)
(* C6                                                                      *)
(***************************************************************************)
\* patterns with a helper given too few or too many arguments, an unknown
\* helper, or an unclosed tag or block
MalformedPatterns ==
    {LongFewArgs, LongManyArgs, LongUnknownHelper, LongUnclosed, LongOpenBlock}

Redirects == {MOVED_PERMANENTLY, PERMANENT_REDIRECT}

\* C6: a request for a link whose pattern has malformed helper arity, an
\* unknown helper or broken syntax is answered with status 500 and never
\* with a redirect to an expanded URL.
C6_MalformedPatternIs500 ==
    \A r \in DOMAIN reqs :
        (reqs[r].found.ok /\ reqs[r].found.link.long \in MalformedPatterns)
        => reqs[r].reply.status = INTERNAL_SERVER_ERROR

(***************************************************************************)
(* C7                                                                      *)
(***************************************************************************)
\* the expanded string of request r, with the request's query merged in as
\* the handler serving it does
C7_Expanded(r) ==
    IF reqs[r].handler = "Renderer"
    THEN LET path == path_remainder(reqs[r].full_path, reqs[r].short)
             expanded == render_template(with_path(path, reqs[r].found.link.long),
                                         "Renderer", path)
         IN  IF expanded.ok /\ reqs[r].query_params # <<>>
             THEN Ok(expanded.v \o (IF contains(expanded.v, <<"?">>)
                                    THEN <<"&">> ELSE <<"?">>)
                     \o join_pairs(reqs[r].query_params, "form_urlencoded"))
             ELSE expanded
    ELSE handlers_expand_link(handlers_path_remainder(reqs[r].full_path),
                              reqs[r].query_params, reqs[r].found.link.long)

\* C7: when the expanded string of a request does not parse as an absolute
\* URL, the request is answered with status 500: the handler neither
\* redirects nor panics.
C7_InvalidUrlIs500 ==
    \A r \in DOMAIN reqs :
        (reqs[r].found.ok /\ C7_Expanded(r).ok /\ ~url_parse(C7_Expanded(r).v).ok)
        => /\ reqs[r].pc # "panicked"
           /\ reqs[r].reply.status = INTERNAL_SERVER_ERROR

(***************************************************************************)
(* C8                                                                      *)
(***************************************************************************)
\* the inputs the reply of a request may depend on
C8_Inputs(r) ==
    <<reqs[r].found, reqs[r].short, reqs[r].full_path, reqs[r].query_params>>

\* C8: the reply Renderer::get returns is the one computed from the lookup
\* result and the request alone, so two requests with the same lookup
\* result, path and query get the same status and Location whether their
\* increments succeeded, failed or found no counter row, and whatever the
\* counters held.
C8_IncrementIsolated ==
    /\ \A r \in DOMAIN reqs :
          (reqs[r].handler = "Renderer" /\ reqs[r].pc = "responded")
          => reqs[r].reply = Renderer_reply(reqs[r].found, reqs[r].short,
                                            reqs[r].full_path, reqs[r].query_params)
    /\ \A r1, r2 \in DOMAIN reqs :
          (/\ reqs[r1].handler = "Renderer" /\ reqs[r1].pc = "responded"
           /\ reqs[r2].handler = "Renderer" /\ reqs[r2].pc = "responded"
           /\ C8_Inputs(r1) = C8_Inputs(r2))
          => reqs[r1].reply = reqs[r2].reply

\* two permanent redirects of the same link and path, one returned after an
\* increment that succeeded and one after an increment that did not
C8_Witness ==
    \E r1, r2 \in DOMAIN reqs :
        /\ reqs[r1].handler = "Renderer" /\ reqs[r1].pc = "responded"
        /\ reqs[r2].handler = "Renderer" /\ reqs[r2].pc = "responded"
        /\ C8_Inputs(r1) = C8_Inputs(r2)
        /\ reqs[r1].reply.status = PERMANENT_REDIRECT /\ reqs[r1].reply.location.some
        /\ reqs[r1].incr = "ok" /\ reqs[r2].incr = "err"

(***************************************************************************)
(* C9                                                                      *)
(***************************************************************************)
\* C9: the redirect does not wait for the increment: no request sits with
\* its redirect computed and withheld until the increment has run.
C9_ResponseNotDelayed ==
    \A r \in DOMAIN reqs :
        ~(reqs[r].pc = "incr" /\ reqs[r].reply.status = PERMANENT_REDIRECT)

(***************************************************************************)
(* C10                                                                     *)
(***************************************************************************)
\* request r is served by this step: handlers.rs get answers in one step,
\* Renderer::get runs its increment
C10_Served(r) ==
    \/ r \notin DOMAIN reqs /\ reqs'[r].pc = "responded"
    \/ r \in DOMAIN reqs /\ reqs[r].pc = "incr" /\ reqs'[r].pc = "return"

C11_Successes(id) ==
    Cardinality({r \in DOMAIN reqs :
                    reqs[r].incr = "ok" /\ normalized_id(reqs[r].short) = id})

\* saving a link leaves a counter record for its key, with clicks unset when
\* the key had no record before
C11_InsertCreatesRecord ==
    \A link \in SavedLinks :
        LinkDAO_save(link)
        => \E i \in 1..Len(stats') :
              /\ stats'[i].ID = normalized_id(link.short)
              /\ rows_affected(link.short) = 0 => stats'[i].clicks = Null

\* the one record of a key holds the number of increments that succeeded on
\* the key, unset while there was none
C11_ClicksAreSuccesses ==
    \A i \in 1..Len(stats) :
        Cardinality({j \in 1..Len(stats) : stats[j].ID = stats[i].ID}) = 1
        => stats[i].clicks = IF C11_Successes(stats[i].ID) = 0 THEN Null
                             ELSE [null |-> FALSE, n |-> C11_Successes(stats[i].ID)]

\* no step removes a record, lowers its clicks or unsets them
C11_NeverDecreases ==
    /\ Len(stats') >= Len(stats)
    /\ \A i \in 1..Len(stats) :
          /\ stats'[i].ID = stats[i].ID
          /\ stats'[i].clicks.n >= stats[i].clicks.n
          /\ stats'[i].clicks.null => stats[i].clicks.null

\* C11: inserting a link creates the counter record of its key with clicks
\* unset; after k >= 1 successful increments of the key the record holds
\* exactly k; the value never decreases while the record exists.
C11_CounterLifeCycle ==
    [][C11_InsertCreatesRecord /\ C11_ClicksAreSuccesses' /\ C11_NeverDecreases]_vars

\* the part of C11 that is about StatsDAO::incr alone: counting and
\* monotonicity, for the records StatsDAO::save creates
C11_IncrCounts ==
    [][C11_ClicksAreSuccesses' /\ C11_NeverDecreases]_vars

(***************************************************************************)
(* C12                                                                     *)
(***************************************************************************)
\* request r runs its increment in this step
C12_Incr(r) == reqs[r].pc = "incr" /\ reqs'[r].pc = "return"

\* C12: an increment for a key that has a counter row raises the clicks of
\* the key (unless the store fails to execute it, which changes nothing);
\* an increment for a key without a counter row changes no state: no row is
\* created, no row and no link is changed.
C12_IncrWithoutRowIsNoOp ==
    [][\A r \in DOMAIN reqs :
            C12_Incr(r)
            => IF rows_affected(reqs[r].short) = 0
               THEN stats' = stats /\ links' = links
               ELSE /\ Len(stats') = Len(stats)
                    /\ links' = links
                    /\ \/ stats' = stats /\ reqs'[r].incr = "err"
                       \/ \A i \in 1..Len(stats) :
                             IF stats[i].ID = normalized_id(reqs[r].short)
                             THEN stats'[i].clicks =
                                    [null |-> FALSE, n |-> stats[i].clicks.n + 1]
                             ELSE stats'[i] = stats[i]
      ]_vars

\* an increment has run for a key that has no counter row, next to the
\* counter row of another key
C12_Witness ==
    \E r \in DOMAIN reqs :
        /\ reqs[r].pc = "return" /\ reqs[r].incr = "err"
        /\ rows_affected(reqs[r].short) = 0
        /\ \E i \in 1..Len(stats) : stats[i].clicks = Null

(***************************************************************************)
(* C13                                                                     *)
(***************************************************************************)
\* C13: a request whose short code has no stored link is answered 404,
\* whatever its path and query: the answer is the fixed not-found reply of
\* its handler (nothing of an expansion is in it, and nothing an expansion
\* can end in, a 500 or a panic, happens), and it is no 3xx redirect.
C13_MissIsNotFound ==
    \A r \in DOMAIN reqs :
        ~reqs[r].found.ok
        => /\ reqs[r].reply.status = NOT_FOUND
           /\ reqs[r].reply.status \notin 300..399
           /\ reqs[r].pc # "panicked"
           /\ reqs[r].reply = IF reqs[r].handler = "Renderer"
                              THEN redirect_with_status(<<"/">>, NOT_FOUND)
                              ELSE with_status(NOT_FOUND)

\* both handlers have answered a request for a short code that is not
\* stored, one of them with a remainder after the short code, while another
\* link is stored
C13_Witness ==
    /\ DOMAIN links # {}
    /\ \E r1, r2 \in DOMAIN reqs :
          /\ reqs[r1].handler = "Renderer" /\ reqs[r1].pc = "responded"
          /\ ~reqs[r1].found.ok
          /\ reqs[r1].full_path = <<"/">> \o reqs[r1].short \o <<"/", "x">>
          /\ reqs[r2].handler = "handlers" /\ reqs[r2].pc = "responded"
          /\ ~reqs[r2].found.ok

(***************************************************************************)
(* C14                                                                     *)
(***************************************************************************)
\* the expanded URL of request r as its handler computes it
C14_Expanded(r) ==
    expand(reqs[r].handler,
           IF reqs[r].handler = "Renderer"
           THEN path_remainder(reqs[r].full_path, reqs[r].short)
           ELSE handlers_path_remainder(reqs[r].full_path),
           reqs[r].query_params, reqs[r].found.link.long)

\* location is the URL expanded, as written or as url::Url writes it (a bare
\* host gets the path "/")
C14_SameUrl(location, expanded) ==
    \/ location = expanded
    \/ url_parse(expanded).ok /\ location = url_to_string(url_parse(expanded))

\* C14: a request whose expansion succeeds is answered with a permanent
\* redirect, 308 from Renderer::get, whose Location is the expanded URL; a
\* link stored as a bare host, visited without remainder and query, is
\* answered with that URL and the path "/".
C14_RedirectToExpandedUrl ==
    \A r \in DOMAIN reqs :
        (reqs[r].found.ok /\ reqs[r].pc = "responded" /\ C14_Expanded(r).ok)
        => /\ reqs[r].reply.status \in Redirects
           /\ reqs[r].handler = "Renderer"
                => reqs[r].reply.status = PERMANENT_REDIRECT
           /\ reqs[r].reply.location.some
           /\ C14_SameUrl(reqs[r].reply.location.v, C14_Expanded(r).v)
           /\ (reqs[r].found.link.long = LongHost
                    /\ reqs[r].full_path = <<"/">> \o reqs[r].short
                    /\ reqs[r].query_params = <<>>)
                => reqs[r].reply.location.v = LongHost \o <<"/">>

(***************************************************************************)
(* C15                                                                     *)
(***************************************************************************)
\* how often the pair p stands in the sequence of pairs
C15_Times(pairs, p) == Cardinality({i \in DOMAIN pairs : pairs[i] = p})

\* the pairs of merged are those of carried and those of the request, each as
\* often, in any order
C15_Merged(merged, carried, request) ==
    \A p \in {merged[i] : i \in DOMAIN merged}
             \cup {carried[i] : i \in DOMAIN carried}
             \cup {request[i] : i \in DOMAIN request} :
        C15_Times(merged, p) = C15_Times(carried, p) + C15_Times(request, p)

\* the URL the same call expands to when the request has no query
C15_Carried == expand(call.engine, call.path, <<>>, call.long)

\* C15: when query parameters are merged into an expanded URL, the decoded
\* query of the result holds every pair of the request with its key and its
\* value as given, next to the pairs the expanded URL carried, which are
\* unaltered; the order of the pairs is free.
C15_QueryRoundTrip ==
    (Returned /\ call.ret.ok /\ call.query_params # <<>> /\ C15_Carried.ok)
    => C15_Merged(query_pairs(call.ret.v), query_pairs(C15_Carried.v),
                  call.query_params)

\* the same for Renderer::expand_link alone
C15_RendererRoundTrip ==
    call.engine = "Renderer" => C15_QueryRoundTrip

(***************************************************************************)
(* C16                                                                     *)
(***************************************************************************)
\* the URL up to its fragment, and the fragment with its "#"
C16_BeforeFragment(url) ==
    IF find(url, <<"#">>) = 0 THEN url ELSE SubSeq(url, 1, find(url, <<"#">>) - 1)
C16_Fragment(url) ==
    IF find(url, <<"#">>) = 0 THEN <<>> ELSE From(url, find(url, <<"#">>))

\* the URL has a query component: a "?" before its fragment
C16_HasQuery(url) == contains(C16_BeforeFragment(url), <<"?">>)

\* the separators the rule allows for the URL: "?" without a query
\* component, "&" with one (nothing is needed after a query that is empty)
C16_Separators(url) ==
    IF ~C16_HasQuery(url) THEN {<<"?">>}
    ELSE IF query_component(url) = <<>> THEN {<<"&">>, <<>>}
    ELSE {<<"&">>}

\* the request's pairs as the engine of the call encodes and joins them
C16_Joined ==
    join_pairs(call.query_params,
               IF call.engine = "Renderer" THEN "form_urlencoded" ELSE "urlencoding")

\* C16: the merged URL is the expanded URL with the encoded pairs, joined by
\* "&", attached (at its end or at the end of its query) after "?" when the
\* expanded URL has no query component and after "&" when it has one; the
\* merge opens no second query.
C16_MergeSeparator ==
    (Returned /\ call.ret.ok /\ call.query_params # <<>> /\ C15_Carried.ok)
    => /\ \E sep \in C16_Separators(C15_Carried.v) :
             \/ call.ret.v = C15_Carried.v \o sep \o C16_Joined
             \/ call.ret.v = C16_BeforeFragment(C15_Carried.v) \o sep \o C16_Joined
                             \o C16_Fragment(C15_Carried.v)
       /\ Count(C16_BeforeFragment(call.ret.v), "?")
            <= Count(C16_BeforeFragment(C15_Carried.v), "?")
               + (IF C16_HasQuery(C15_Carried.v) THEN 0 ELSE 1)

\* the same for Renderer::expand_link alone
C16_RendererSeparator ==
    call.engine = "Renderer" => C16_MergeSeparator

(***************************************************************************)
(* C17                                                                     *)
(***************************************************************************)
\* http://h/
C17_Prefix == SubSeq(LongPath, 1, Len(LongPath) - Len(PathPlaceholder))

\* C17: with every remainder r the template http://h/{{path}} renders to
\* http://h/ followed by r, character for character, and that text is what
\* the expansion (without query parameters) returns.
C17_BarePathUnescaped ==
    (Returned /\ call.long = LongPath /\ call.query_params = <<>>)
    => /\ render_template(with_path(call.path, call.long), call.engine, call.path)
            = Ok(C17_Prefix \o call.path)
       /\ call.ret = Ok(C17_Prefix \o call.path)

(***************************************************************************)
(* C18                                                                     *)
(***************************************************************************)
\* the patterns without template syntax that hold a percent-escape
C18_Escaped == {LongEscaped, LongEscapedDots}

\* the expansion starts with the pattern as stored and holds no "%" the
\* pattern does not hold; without remainder it is the pattern
C18_Preserved ==
    /\ call.ret.ok
    /\ starts_with(call.ret.v, call.long)
    /\ Count(call.ret.v, "%") = Count(call.long, "%")
    /\ call.path = <<>> => call.ret.v = call.long

C19_OnlyUndefined(patterns) ==
    /\ Returned /\ call.query_params = <<>>
    /\ \/ call.long \in patterns
       \/ call.long = LongIf /\ call.path = <<>>

\* C19: a reference to an undefined name is rendered as the empty string
\* and is no error: http://h/{{ bar }} expands to http://h/ with any
\* remainder, which is dropped; an #if on an undefined name or on the empty
\* remainder leaves its clause out; so does every other reference to an
\* undefined name.
C19_UndefinedRendersEmpty ==
    C19_OnlyUndefined({LongUndefined, LongIfUndefined, LongUpperUndefined})
    => call.ret = Ok(C17_Prefix)

\* the same without the undefined name that is the argument of a helper
C19_BareOrIfRendersEmpty ==
    C19_OnlyUndefined({LongUndefined, LongIfUndefined})
    => call.ret = Ok(C17_Prefix)

(***************************************************************************)
(* C20                                                                     *)
(***************************************************************************)
\* \d+ matches a string exactly when the string holds a digit
C20_HasDigit(s) == \E i \in 1..Len(s) : s[i] \in Digit

\* what {{path}} alone renders to in the same engine: the expansion of
\* http://h/{{path}} after http://h/
C20_PathRendered ==
    From(expand(call.engine, call.path, <<>>, LongPath).v, Len(C17_Prefix) + 1)

\* C20: match is true exactly when the regular expression matches the
\* string: {{match "\\d+" path}} renders true when the remainder holds a
\* digit and false when not; an if/else on it renders the if-branch alone
\* when the remainder matches and the else-branch alone when not; with a
\* pattern that is no regular expression match is false, the else-branch is
\* rendered and the expansion does not fail.
C20_MatchSelectsBranch ==
    (Returned /\ call.query_params = <<>>)
    => /\ call.long = LongMatchValue
            => call.ret = Ok(C17_Prefix \o (IF C20_HasDigit(call.path)
                                            THEN <<"t", "r", "u", "e">>
                                            ELSE <<"f", "a", "l", "s", "e">>))
       /\ call.long = LongMatch
            => call.ret = Ok(C17_Prefix \o (IF C20_HasDigit(call.path)
                                            THEN <<"i", "/">> ELSE <<"s", "/">>)
                             \o C20_PathRendered)
       /\ call.long = LongMatchInvalid => call.ret = Ok(C17_Prefix \o <<"s">>)

\* the if/else on match has rendered its if-branch for a remainder that
\* matches after its first character
C20_Witness ==
    /\ Returned /\ call.engine = "Renderer" /\ call.long = LongMatch
    /\ call.query_params = <<>> /\ call.path = <<"x", "1">>
    /\ call.ret = Ok(C17_Prefix \o <<"i", "/", "x", "1">>)

(***************************************************************************)
(* Creating links: render.rs Renderer::new_link and handlers.rs create,    *)
(* over the store of db.rs. The store calls of the handlers are the        *)
(* operations of LinkDAO: insert is the INSERT OR REPLACE of save, get_all *)
(* is load_all, get is load.                                               *)
(***************************************************************************)
BAD_REQUEST == 400
CREATED == 201
MaxTime == 2
\* what chrono::Utc::now() may return
Times == 1..MaxTime

\* INSERT OR REPLACE INTO Links: the rows after the statement (a row with
\* the same ID is replaced)
insert_or_replace(link) ==
    [id \in DOMAIN links \cup {normalized_id(link.short)} |->
        IF id = normalized_id(link.short) THEN link ELSE links[id]]

\* impl Into<model::Link> for CreateUpdateRequest, with the two readings of
\* the clock
into(request, created, updated) ==
    [short |-> request.short, long |-> request.target,
     created |-> created, updated |-> updated]

\* LinkStore.get(normalizedKey): the row of that ID
LinkDAO_get_by_id(id) ==
    IF id \in DOMAIN links
    THEN [ok |-> TRUE, link |-> links[id]]
    ELSE [ok |-> FALSE, link |-> [short |-> <<>>, long |-> <<>>]]

\* Renderer::new_link: for link in links.iter() { if request.short == link.short
Renderer_duplicate(request) ==
    \E id \in DOMAIN links : links[id].short = request.short

\* a create request in flight or answered: pc is "insert" (the check passed,
\* the insert not yet run), "get" (inserted, the read back not yet run) or
\* "responded"
CreateRequest(handler, request, link, reply, pc) ==
    [handler |-> handler, request |-> request, link |-> link, reply |-> reply,
     pc |-> pc]

NoReply == [status |-> 0, location |-> NoLocation, panic |-> FALSE]

\* Renderer::new_link, first await: get_all, then the loop over the links
Renderer_new_link(request, created, updated) ==
    /\ started < MaxRequests
    /\ reqs' = Append(reqs,
                 IF Renderer_duplicate(request)
                 THEN CreateRequest("Renderer::new_link", request,
                                    into(request, created, updated),
                                    with_status(BAD_REQUEST), "responded")
                 ELSE CreateRequest("Renderer::new_link", request,
                                    into(request, created, updated),
                                    NoReply, "insert"))
    /\ started' = started + 1
    /\ UNCHANGED <<call, links, stats>>

\* handlers.rs create, first await: get_all, then the loop over the keys
handlers_create(request, created, updated) ==
    /\ started < MaxRequests
    /\ reqs' = Append(reqs,
                 IF (\E id \in DOMAIN links : id = normalized_id(request.short))
                 THEN CreateRequest("handlers::create", request,
                                    into(request, created, updated),
                                    with_status(BAD_REQUEST), "responded")
                 ELSE CreateRequest("handlers::create", request,
                                    into(request, created, updated),
                                    NoReply, "insert"))
    /\ started' = started + 1
    /\ UNCHANGED <<call, links, stats>>

\* both handlers, second await: db.link.insert(&link); a statement the store
\* fails to execute changes nothing and is answered with status 500
create_insert(r, fails) ==
    /\ reqs[r].pc = "insert"
    /\ links' = IF fails THEN links ELSE insert_or_replace(reqs[r].link)
    /\ reqs' = [reqs EXCEPT
                  ![r].pc = IF fails THEN "responded" ELSE "get",
                  ![r].reply = IF fails THEN with_status(INTERNAL_SERVER_ERROR)
                               ELSE @]
    /\ UNCHANGED <<call, stats, started>>

\* Renderer::new_link, third await: get_by_id(&id), id the key of the insert
Renderer_new_link_get(r) ==
    /\ reqs[r].pc = "get"
    /\ reqs[r].handler = "Renderer::new_link"
    /\ reqs' = [reqs EXCEPT
                  ![r].pc = "responded",
                  ![r].reply =
                     IF LinkDAO_get_by_id(normalized_id(reqs[r].link.short)).ok
                     THEN with_status(CREATED)
                     ELSE with_status(INTERNAL_SERVER_ERROR)]
    /\ UNCHANGED <<call, links, stats, started>>

\* handlers.rs create, third await: db.link.get(&id), then 201 with the
\* Location header "/" followed by the short code
handlers_create_get(r) ==
    /\ reqs[r].pc = "get"
    /\ reqs[r].handler = "handlers::create"
    /\ reqs' = [reqs EXCEPT
                  ![r].pc = "responded",
                  ![r].reply =
                     IF LinkDAO_load(normalized_id(reqs[r].link.short)).ok
                     THEN [status |-> CREATED,
                           location |-> [some |-> TRUE,
                                         v |-> <<"/">> \o reqs[r].link.short],
                           panic |-> FALSE]
                     ELSE with_status(INTERNAL_SERVER_ERROR)]
    /\ UNCHANGED <<call, links, stats, started>>

CreateUpdateRequests ==
    {[short |-> s, target |-> l] : s \in {<<"a", "-", "b">>, <<"a", "t", "o",
                                          "b">>, <<" ">>}, l \in {LongPlain, LongHost}}

NextCreate ==
    \/ \E request \in CreateUpdateRequests, created \in Times, updated \in Times :
            created <= updated /\ Renderer_new_link(request, created, updated)
    \/ \E request \in CreateUpdateRequests, created \in Times, updated \in Times :
            created <= updated /\ handlers_create(request, created, updated)
    \/ \E r \in DOMAIN reqs, fails \in BOOLEAN : create_insert(r, fails)
    \/ \E r \in DOMAIN reqs : Renderer_new_link_get(r)
    \/ \E r \in DOMAIN reqs : handlers_create_get(r)

SpecCreate == Init /\ [][NextCreate]_vars

(***************************************************************************)
(* C21                                                                     *)
(***************************************************************************)
\* the request a step has just accepted
C21_Accepted == reqs'[Len(reqs')]

\* C21: a create request whose short code has a normalized key that is
\* already stored is answered at once with status 400, and the step changes
\* no link and no counter
C21_DuplicateRejected ==
    [][(Len(reqs') = Len(reqs) + 1
        /\ normalized_id(C21_Accepted.request.short) \in DOMAIN links)
       => /\ C21_Accepted.pc = "responded"
          /\ C21_Accepted.reply.status = BAD_REQUEST
          /\ links' = links
          /\ stats' = stats]_vars

\* handlers.rs create compares keys: its requests satisfy the statement
C21_HandlersRejects ==
    [][(Len(reqs') = Len(reqs) + 1
        /\ C21_Accepted.handler = "handlers::create"
        /\ normalized_id(C21_Accepted.request.short) \in DOMAIN links)
       => /\ C21_Accepted.pc = "responded"
          /\ C21_Accepted.reply.status = BAD_REQUEST
          /\ links' = links
          /\ stats' = stats]_vars

\* Renderer::new_link rejects the short codes that are stored as written
C21_RendererRejectsSameShort ==
    [][(Len(reqs') = Len(reqs) + 1
        /\ C21_Accepted.handler = "Renderer::new_link"
        /\ \E id \in DOMAIN links : links[id].short = C21_Accepted.request.short)
       => /\ C21_Accepted.pc = "responded"
          /\ C21_Accepted.reply.status = BAD_REQUEST
          /\ links' = links
          /\ stats' = stats]_vars

\* a link created under another short code of the same key has replaced
\* the stored link, and its request was answered 201
C21_Overwritten ==
    \E r1, r2 \in DOMAIN reqs :
        /\ r1 < r2
        /\ reqs[r1].pc = "responded" /\ reqs[r1].reply.status = CREATED
        /\ reqs[r2].pc = "responded" /\ reqs[r2].reply.status = CREATED
        /\ reqs[r2].handler = "Renderer::new_link"
        /\ reqs[r1].request.short # reqs[r2].request.short
        /\ normalized_id(reqs[r1].request.short) = normalized_id(reqs[r2].request.short)
        /\ links[normalized_id(reqs[r1].request.short)] = reqs[r2].link
        /\ reqs[r1].link.long # reqs[r2].link.long

(***************************************************************************)
(* C28                                                                     *)
(***************************************************************************)
C28_Created(r) ==
    reqs[r].pc = "responded" /\ reqs[r].reply.status = CREATED

\* C28: when every create request is for one short code, at most one of
\* them is answered as created (SpecCreate deletes no link), and the stored
\* link is the one of that request
C28_OneCreatePerShort ==
    \A r1 \in DOMAIN reqs :
        (/\ C28_Created(r1)
         /\ \A r \in DOMAIN reqs :
               /\ reqs[r].request.short = reqs[r1].request.short
               /\ reqs[r].handler = reqs[r1].handler)
        => /\ \A r2 \in DOMAIN reqs : C28_Created(r2) => r1 = r2
           /\ links[normalized_id(reqs[r1].request.short)] = reqs[r1].link

\* two requests of handlers.rs create for one short code, both answered as
\* created, the second one's link stored
C28_BothCreated ==
    /\ Len(reqs) = 2
    /\ reqs[1].handler = "handlers::create" /\ reqs[2].handler = "handlers::create"
    /\ reqs[1].request.short = reqs[2].request.short
    /\ reqs[1].request.target # reqs[2].request.target
    /\ C28_Created(1) /\ C28_Created(2)

(***************************************************************************)
(* Updating, deleting and reading links: render.rs Renderer::create,       *)
(* update, delete, json_detail and handlers.rs update, over the store of   *)
(* db.rs (update is the INSERT OR REPLACE of LinkDAO::save, delete is      *)
(* LinkDAO::delete, stats.get is StatsDAO::load).                          *)
(***************************************************************************)
OK == 200

\* Renderer::xsrf(): the token of this renderer, and the tokens a form sends
Renderer_xsrf == <<"t">>
XsrfTokens == {<<"t">>, <<"x">>}

\* a handler that accepts every token
xsrf_differs_never(xsrf) == FALSE

\* if xsrf != self.xsrf() { return redirect("/"); }
xsrf_differs(xsrf) == xsrf # Renderer_xsrf

\* fn redirect(location): warp::redirect, status 301
redirect(location) == warp_redirect(location, MOVED_PERMANENTLY)

\* format!("/.detail/{}", id)
detail_location(id) == <<"/", ".", "d", "e", "t", "a", "i", "l", "/">> \o id

\* DELETE FROM Links WHERE ID = normalized_id(short): the rows after the
\* statement, and the result (Ok only when one row was affected)
delete_rows(short, fails) ==
    IF fails THEN links
    ELSE [id \in DOMAIN links \ {normalized_id(short)} |-> links[id]]

\* DELETE FROM Stats WHERE ID = normalized_id(short)
RECURSIVE stats_without(_, _)
stats_without(rows, id) ==
    IF rows = <<>> THEN <<>>
    ELSE IF Head(rows).ID = id THEN stats_without(Tail(rows), id)
         ELSE <<Head(rows)>> \o stats_without(Tail(rows), id)

\* SELECT created, clicks FROM Stats WHERE ID = normalized_id(short), read
\* with query_one: no row is Ok(None), several rows are an error
StatsDAO_load(short) ==
    LET rows == {i \in 1..Len(stats) : stats[i].ID = normalized_id(short)}
    IN  IF rows = {} THEN [ok |-> TRUE, some |-> FALSE, clicks |-> Null]
        ELSE IF Cardinality(rows) = 1
             THEN [ok |-> TRUE, some |-> TRUE,
                   clicks |-> stats[CHOOSE i \in rows : TRUE].clicks]
             ELSE [ok |-> FALSE, some |-> FALSE, clicks |-> Null]

\* a request of these handlers in flight or answered: xsrf is the token of
\* the form (none for the other handlers), link is the link it is about to
\* write (update) or has read (json_detail)
StoreRequest(handler, id, request, xsrf, link, reply, pc) ==
    [handler |-> handler, id |-> id, request |-> request, xsrf |-> xsrf,
     link |-> link, reply |-> reply, pc |-> pc]
NoLink == [short |-> <<>>, long |-> <<>>]
NoRequest == [short |-> <<>>, target |-> <<>>]

\* ---- Renderer::create ---------------------------------------------------
\* up to the insert: the token, then get_all and the loop over the links
Renderer_create(request, xsrf, created, updated) ==
    /\ started < MaxRequests
    /\ reqs' = Append(reqs,
         IF xsrf_differs(xsrf)
         THEN StoreRequest("Renderer::create", <<>>, request, xsrf, NoLink,
                           redirect(<<"/">>), "responded")
         ELSE IF Renderer_duplicate(request)
         THEN StoreRequest("Renderer::create", <<>>, request, xsrf, NoLink,
                           with_status(BAD_REQUEST), "responded")
         ELSE StoreRequest("Renderer::create", <<>>, request, xsrf,
                           into(request, created, updated), NoReply, "insert"))
    /\ started' = started + 1
    /\ UNCHANGED <<call, links, stats>>

\* db.link.insert(&link).await
Renderer_create_insert(r, fails) ==
    /\ reqs[r].handler = "Renderer::create"
    /\ reqs[r].pc = "insert"
    /\ links' = IF fails THEN links ELSE insert_or_replace(reqs[r].link)
    /\ reqs' = [reqs EXCEPT
                  ![r].pc = IF fails THEN "responded" ELSE "get",
                  ![r].reply = IF fails THEN redirect(<<"/">>) ELSE @]
    /\ UNCHANGED <<call, stats, started>>

\* get_by_id(&id).await: redirect("/") in both arms
Renderer_create_get(r) ==
    /\ reqs[r].handler = "Renderer::create"
    /\ reqs[r].pc = "get"
    /\ reqs' = [reqs EXCEPT ![r].pc = "responded",
                            ![r].reply = redirect(<<"/">>)]
    /\ UNCHANGED <<call, links, stats, started>>

\* ---- Renderer::update ---------------------------------------------------
\* up to get_by_id: the token, then get_all and id_list.contains(id)
Renderer_update(id, request, xsrf) ==
    /\ started < MaxRequests
    /\ reqs' = Append(reqs,
         IF xsrf_differs(xsrf)
         THEN StoreRequest("Renderer::update", id, request, xsrf, NoLink,
                           redirect(<<"/">>), "responded")
         ELSE IF id \notin DOMAIN links
         THEN StoreRequest("Renderer::update", id, request, xsrf, NoLink,
                           redirect(detail_location(id)), "responded")
         ELSE StoreRequest("Renderer::update", id, request, xsrf, NoLink,
                           NoReply, "get_by_id"))
    /\ started' = started + 1
    /\ UNCHANGED <<call, links, stats>>

\* get_by_id(id).await, then the updated link: the short code and the
\* target of the request, created of the stored link, updated now
Renderer_update_get_by_id(r, now) ==
    /\ reqs[r].handler = "Renderer::update"
    /\ reqs[r].pc = "get_by_id"
    /\ LET found == LinkDAO_get_by_id(reqs[r].id)
       IN  reqs' = [reqs EXCEPT
              ![r].pc = IF found.ok THEN "update" ELSE "responded",
              ![r].link = IF found.ok
                          THEN [short |-> reqs[r].request.short,
                                long |-> reqs[r].request.target,
                                created |-> found.link.created,
                                updated |-> now]
                          ELSE @,
              ![r].reply = IF found.ok THEN @
                           ELSE redirect(detail_location(reqs[r].id))]
    /\ UNCHANGED <<call, links, stats, started>>

\* db.link.update(&updated_link).await: the same redirect in both arms
Renderer_update_save(r, fails) ==
    /\ reqs[r].handler = "Renderer::update"
    /\ reqs[r].pc = "update"
    /\ links' = IF fails THEN links ELSE insert_or_replace(reqs[r].link)
    /\ reqs' = [reqs EXCEPT ![r].pc = "responded",
                            ![r].reply = redirect(detail_location(reqs[r].id))]
    /\ UNCHANGED <<call, stats, started>>

\* ---- handlers.rs update -------------------------------------------------
\* get_all (its length is logged) and db.link.get(id), then the updated
\* link: id and short code of the stored link, the target of the request
handlers_update(id, request, now) ==
    /\ started < MaxRequests
    /\ LET found == LinkDAO_load(id)
       IN  reqs' = Append(reqs,
             IF found.ok
             THEN StoreRequest("handlers::update", id, request, <<>>,
                               [short |-> found.link.short,
                                long |-> request.target,
                                created |-> found.link.created,
                                updated |-> now],
                               NoReply, "update")
             ELSE StoreRequest("handlers::update", id, request, <<>>, NoLink,
                               with_status(NOT_FOUND), "responded"))
    /\ started' = started + 1
    /\ UNCHANGED <<call, links, stats>>

\* db.link.update(&updated_link).await: 200 with Location, or 500
handlers_update_save(r, fails) ==
    /\ reqs[r].handler = "handlers::update"
    /\ reqs[r].pc = "update"
    /\ links' = IF fails THEN links ELSE insert_or_replace(reqs[r].link)
    /\ reqs' = [reqs EXCEPT
                  ![r].pc = "responded",
                  ![r].reply =
                     IF fails THEN with_status(INTERNAL_SERVER_ERROR)
                     ELSE [status |-> OK,
                           location |-> [some |-> TRUE,
                                         v |-> <<"/">> \o reqs[r].link.short],
                           panic |-> FALSE]]
    /\ UNCHANGED <<call, stats, started>>

\* ---- Renderer::delete ---------------------------------------------------
\* up to the delete: the token, then get_all and id_list.contains(id)
Renderer_delete(id, xsrf) ==
    /\ started < MaxRequests
    /\ reqs' = Append(reqs,
         IF xsrf_differs(xsrf) \/ id \notin DOMAIN links
         THEN StoreRequest("Renderer::delete", id, NoRequest, xsrf, NoLink,
                           redirect(<<"/">>), "responded")
         ELSE StoreRequest("Renderer::delete", id, NoRequest, xsrf, NoLink,
                           NoReply, "delete"))
    /\ started' = started + 1
    /\ UNCHANGED <<call, links, stats>>

\* db.link.delete(id).await
Renderer_delete_delete(r, fails) ==
    /\ reqs[r].handler = "Renderer::delete"
    /\ reqs[r].pc = "delete"
    /\ links' = delete_rows(reqs[r].id, fails)
    /\ reqs' = [reqs EXCEPT
                  ![r].pc = "responded",
                  ![r].reply = IF (~fails /\ normalized_id(reqs[r].id) \in DOMAIN links)
                               THEN redirect(<<"/">>)
                               ELSE redirect(detail_location(reqs[r].id))]
    /\ UNCHANGED <<call, stats, started>>

\* ---- Renderer::json_detail ----------------------------------------------
\* first await: db.link.get(short)
Renderer_json_detail(short) ==
    /\ started < MaxRequests
    /\ LET found == LinkDAO_load(short)
       IN  reqs' = Append(reqs,
             IF found.ok
             THEN StoreRequest("Renderer::json_detail", short, NoRequest, <<>>,
                               found.link, NoReply, "stats")
             ELSE StoreRequest("Renderer::json_detail", short, NoRequest, <<>>,
                               NoLink, with_status(NOT_FOUND), "responded"))
    /\ started' = started + 1
    /\ UNCHANGED <<call, links, stats>>

\* second await: db.stats.get(&link.id); the reply carries the link read
\* by the first await
Renderer_json_detail_stats(r) ==
    /\ reqs[r].handler = "Renderer::json_detail"
    /\ reqs[r].pc = "stats"
    /\ reqs' = [reqs EXCEPT
                  ![r].pc = "responded",
                  ![r].reply =
                     IF StatsDAO_load(normalized_id(reqs[r].link.short)).ok
                     THEN with_status(OK)
                     ELSE with_status(INTERNAL_SERVER_ERROR)]
    /\ UNCHANGED <<call, links, stats, started>>

\* ---- the store called directly (db.rs test_db) ---------------------------
DaoCall(handler, short, result) ==
    [handler |-> handler, id |-> short, request |-> NoRequest, link |-> NoLink,
     reply |-> NoReply, pc |-> IF result THEN "ok" ELSE "err"]

LinkDAO_delete(short, fails) ==
    /\ started < MaxRequests
    /\ links' = delete_rows(short, fails)
    /\ reqs' = Append(reqs, DaoCall("LinkDAO::delete", short,
                                    (~fails /\ normalized_id(short) \in DOMAIN links)))
    /\ started' = started + 1
    /\ UNCHANGED <<call, stats>>

StatsDAO_delete(short, fails) ==
    /\ started < MaxRequests
    /\ stats' = (IF fails THEN stats ELSE stats_without(stats,
                 normalized_id(short)))
    /\ reqs' = Append(reqs, DaoCall("StatsDAO::delete", short,
                                    ~fails /\ rows_affected(short) = 1))
    /\ started' = started + 1
    /\ UNCHANGED <<call, links>>

StatsDAO_incr(short, fails) ==
    /\ started < MaxRequests
    /\ stats' = incr_rows(short, fails)
    /\ reqs' = Append(reqs, DaoCall("StatsDAO::incr", short,
                                    incr_result(short, fails)))
    /\ started' = started + 1
    /\ UNCHANGED <<call, links>>

\* ---- the specification ---------------------------------------------------
StoreShorts == {<<"a">>, <<"b">>}
StoreRequests ==
    {[short |-> s, target |-> LongHost] : s \in StoreShorts}

NextStore ==
    \/ \E link \in {[short |-> s, long |-> LongPlain, created |-> 1,
                    updated |-> 1] : s \in StoreShorts} : LinkDAO_save(link)
    \/ StatsDAO_save(<<"a">>)
    \/ \E request \in StoreRequests, xsrf \in XsrfTokens, now \in Times :
            Renderer_create(request, xsrf, now, now)
    \/ \E r \in DOMAIN reqs, fails \in BOOLEAN : Renderer_create_insert(r, fails)
    \/ \E r \in DOMAIN reqs : Renderer_create_get(r)
    \/ \E id \in StoreShorts, request \in StoreRequests, xsrf \in XsrfTokens :
            Renderer_update(id, request, xsrf)
    \/ \E r \in DOMAIN reqs, now \in Times : Renderer_update_get_by_id(r, now)
    \/ \E r \in DOMAIN reqs, fails \in BOOLEAN : Renderer_update_save(r, fails)
    \/ \E id \in StoreShorts, request \in StoreRequests, now \in Times :
            handlers_update(id, request, now)
    \/ \E r \in DOMAIN reqs, fails \in BOOLEAN : handlers_update_save(r, fails)
    \/ \E id \in StoreShorts, xsrf \in XsrfTokens : Renderer_delete(id, xsrf)
    \/ \E r \in DOMAIN reqs, fails \in BOOLEAN : Renderer_delete_delete(r, fails)
    \/ \E short \in StoreShorts : Renderer_json_detail(short)
    \/ \E r \in DOMAIN reqs : Renderer_json_detail_stats(r)
    \/ \E short \in StoreShorts, fails \in BOOLEAN : LinkDAO_delete(short, fails)
    \/ \E short \in StoreShorts, fails \in BOOLEAN : StatsDAO_delete(short, fails)
    \/ \E short \in StoreShorts, fails \in BOOLEAN : StatsDAO_incr(short, fails)
    \/ \E short \in StoreShorts : Renderer_get(short, <<"/">> \o short, <<>>)
    \/ \E r \in DOMAIN reqs, fails \in BOOLEAN : Renderer_get_incr(r, fails)
    \/ \E r \in DOMAIN reqs : Renderer_get_return(r)

SpecStore == Init /\ [][NextStore]_vars

(***************************************************************************)
(* C22                                                                     *)
(***************************************************************************)
C22_Updates == {"Renderer::update", "handlers::update"}

\* request r runs its db.link.update in this step
C22_Updating(r) ==
    /\ reqs[r].handler \in C22_Updates
    /\ reqs[r].pc = "update"
    /\ reqs'[r].pc = "responded"

\* the step keeps the keys, and the short code and created of every link,
\* and all of every link but the one of key id
C22_Frame(id) ==
    /\ DOMAIN links' = DOMAIN links
    /\ \A k \in DOMAIN links :
          /\ links'[k].short = links[k].short
          /\ links'[k].created = links[k].created
          /\ k # id => links'[k] = links[k]

\* a step that accepts an update request for a key that is not stored (with
\* the renderer's token, where the handler takes one)
C22_Missing ==
    /\ Len(reqs') = Len(reqs) + 1
    /\ C21_Accepted.handler \in C22_Updates
    /\ C21_Accepted.id \notin DOMAIN links
    /\ C21_Accepted.handler = "Renderer::update" =>
          C21_Accepted.xsrf = Renderer_xsrf

\* C22: an update writes the target of its request to the link of its key
\* and leaves the keys, every short code and every created value as they
\* are; an update of a key that is not stored is answered not-found and
\* changes nothing
C22_UpdateReplacesTarget ==
    [][/\ \A r \in DOMAIN reqs :
            C22_Updating(r) =>
               /\ C22_Frame(reqs[r].id)
               /\ links' # links => links'[reqs[r].id].long = reqs[r].request.target
       /\ C22_Missing =>
            /\ C21_Accepted.pc = "responded"
            /\ C21_Accepted.reply.status = NOT_FOUND
            /\ links' = links /\ stats' = stats]_vars

\* the same for handlers.rs update alone, when the link it has read is
\* still the stored one as it writes
C22_HandlersUpdate ==
    [][/\ \A r \in DOMAIN reqs :
            (/\ C22_Updating(r)
             /\ reqs[r].handler = "handlers::update"
             /\ reqs[r].id \in DOMAIN links
             /\ links[reqs[r].id].short = reqs[r].link.short
             /\ links[reqs[r].id].created = reqs[r].link.created)
            => /\ C22_Frame(reqs[r].id)
               /\ links' # links => links'[reqs[r].id].long = reqs[r].request.target
       /\ (C22_Missing /\ C21_Accepted.handler = "handlers::update") =>
            /\ C21_Accepted.pc = "responded"
            /\ C21_Accepted.reply.status = NOT_FOUND
            /\ links' = links /\ stats' = stats]_vars

\* Renderer::update keeps the short code of the links it writes
C22_RendererKeepsShort ==
    [][\A r \in DOMAIN reqs :
          (/\ C22_Updating(r)
           /\ reqs[r].handler = "Renderer::update"
           /\ reqs[r].id \in DOMAIN links)
          => C22_Frame(reqs[r].id)]_vars

(***************************************************************************)
(* C23                                                                     *)
(***************************************************************************)
C23_Readers == {"Renderer", "Renderer::json_detail"}

\* a step of Renderer::get or Renderer::json_detail: the request accepted,
\* or one of its later awaits
C23_Reading ==
    \/ Len(reqs') = Len(reqs) + 1 /\ C21_Accepted.handler \in C23_Readers
    \/ \E r \in DOMAIN reqs :
          reqs[r].handler \in C23_Readers /\ reqs'[r] # reqs[r]

\* C23: no step of a redirect or of a detail read changes a stored link
\* (its short, long, created and updated values), and the link a detail
\* read returns is the stored one
C23_ReadsLeaveLinks ==
    [][C23_Reading =>
         /\ links' = links
         /\ (/\ Len(reqs') = Len(reqs) + 1
             /\ C21_Accepted.handler = "Renderer::json_detail"
             /\ C21_Accepted.pc = "stats")
            => C21_Accepted.link = links[normalized_id(C21_Accepted.id)]]_vars

\* a stored link visited once and counted, and its details read
C23_Witness ==
    /\ Len(reqs) = 2
    /\ \E r \in DOMAIN reqs :
          /\ reqs[r].handler = "Renderer"
          /\ reqs[r].pc = "responded"
          /\ reqs[r].reply.status = PERMANENT_REDIRECT
          /\ reqs[r].incr = "ok"
          /\ normalized_id(reqs[r].short) \in DOMAIN links
          /\ links[normalized_id(reqs[r].short)] = reqs[r].found.link
    /\ \E r \in DOMAIN reqs :
          /\ reqs[r].handler = "Renderer::json_detail"
          /\ reqs[r].pc = "responded"
          /\ reqs[r].reply.status = OK
          /\ links[normalized_id(reqs[r].id)] = reqs[r].link
    /\ \E i \in DOMAIN stats : stats[i].clicks = [null |-> FALSE, n |-> 1]

(***************************************************************************)
(* C30                                                                     *)
(***************************************************************************)
C30_Forms == {"Renderer::create", "Renderer::update", "Renderer::delete"}

\* the step accepts a form request
C30_Form ==
    Len(reqs') = Len(reqs) + 1 /\ C21_Accepted.handler \in C30_Forms

\* the request is answered at once and the step changes no link and no
\* counter (an answered request takes no further step)
C30_NothingDone ==
    /\ C21_Accepted.pc = "responded"
    /\ links' = links
    /\ stats' = stats

\* C30: a form request (create, update, delete) whose token differs from
\* the renderer's is answered at once with a redirect to "/" and changes no
\* link and no counter; an update or delete with the right token for an id
\* that is not stored is answered at once too and changes nothing
C30_TokenGuardsStore ==
    [][C30_Form =>
         /\ C21_Accepted.xsrf # Renderer_xsrf =>
               /\ C30_NothingDone
               /\ C21_Accepted.reply.status = MOVED_PERMANENTLY
               /\ C21_Accepted.reply.location = [some |-> TRUE, v |-> <<"/">>]
         /\ (/\ C21_Accepted.handler \in {"Renderer::update", "Renderer::delete"}
             /\ C21_Accepted.id \notin DOMAIN links)
            => C30_NothingDone]_vars

\* with a link stored: an update of it and a delete of it, both with a
\* token that is not the renderer's, answered with the redirect to "/"
C30_Witness ==
    /\ Len(reqs) = 2
    /\ reqs[1].handler = "Renderer::update"
    /\ reqs[2].handler = "Renderer::delete"
    /\ \A r \in {1, 2} :
          /\ reqs[r].xsrf # Renderer_xsrf
          /\ reqs[r].id \in DOMAIN links
          /\ links[reqs[r].id].long = LongPlain
          /\ reqs[r].pc = "responded"
          /\ reqs[r].reply.location = [some |-> TRUE, v |-> <<"/">>]

(***************************************************************************)
(* C29                                                                     *)
(***************************************************************************)
C29_Daos == {"StatsDAO::incr", "StatsDAO::delete", "LinkDAO::delete"}

\* the step is a call of one of the three operations that returns Err
C29_Failed ==
    /\ Len(reqs') = Len(reqs) + 1
    /\ C21_Accepted.handler \in C29_Daos
    /\ C21_Accepted.pc = "err"

\* C29: a call of StatsDAO::incr, StatsDAO::delete or LinkDAO::delete that
\* returns an error has changed no link and no counter
C29_ErrorChangesNothing ==
    [][C29_Failed => links' = links /\ stats' = stats]_vars

\* the same for the calls that find at most one row of their key
C29_ErrorOnNoRowChangesNothing ==
    [][(C29_Failed /\ rows_affected(C21_Accepted.id) <= 1)
       => links' = links /\ stats' = stats]_vars

(***************************************************************************)
(* C26                                                                     *)
(***************************************************************************)
\* request r runs its increment in this step
C26_Incrementing(r) ==
    /\ reqs[r].handler = "Renderer"
    /\ reqs[r].pc = "incr"
    /\ reqs'[r].pc = "return"

\* C26: the increment of a request that was not answered with the 308
\* redirect (not found, or the expansion failed) changes no counter
C26_OnlyRedirectsCounted ==
    [][\A r \in DOMAIN reqs :
          (C26_Incrementing(r) /\ reqs[r].reply.status # PERMANENT_REDIRECT)
          => stats' = stats]_vars

\* a link deleted while its Stats row remains, then requested: answered
\* 404 and counted
C26_DeletedLinkCounted ==
    /\ Len(reqs) = 2
    /\ reqs[1].handler = "LinkDAO::delete" /\ reqs[1].pc = "ok"
    /\ reqs[2].handler = "Renderer"
    /\ reqs[2].short = reqs[1].id
    /\ reqs[2].reply.status = NOT_FOUND
    /\ reqs[2].incr = "ok"
    /\ stats = <<[ID |-> normalized_id(reqs[2].short),
                  clicks |-> [null |-> FALSE, n |-> 1]]>>

\* a request whose expansion failed, counted
C26_FailureCounted ==
    \E r \in DOMAIN reqs :
        /\ reqs[r].handler = "Renderer"
        /\ reqs[r].found.ok
        /\ reqs[r].reply.status = INTERNAL_SERVER_ERROR
        /\ reqs[r].incr = "ok"
        /\ Len(reqs) = 1
        /\ stats = <<[ID |-> normalized_id(reqs[r].short),
                      clicks |-> [null |-> FALSE, n |-> 1]]>>

(***************************************************************************)
(* C27                                                                     *)
(***************************************************************************)
\* the requests of Renderer::get for the key whose increment has returned
C27_Returned(id) ==
    {r \in DOMAIN reqs :
        /\ reqs[r].handler = "Renderer"
        /\ normalized_id(reqs[r].short) = id
        /\ reqs[r].pc \in {"return", "responded"}}

\* C27: in every interleaving of the lookups and increments of the
\* requests, when the key has its one counter row and the increments that
\* have returned all returned Ok, the row holds exactly their number
C27_NoIncrementLost ==
    \A i \in 1..Len(stats) :
        (/\ Cardinality({j \in 1..Len(stats) : stats[j].ID = stats[i].ID}) = 1
         /\ \A r \in C27_Returned(stats[i].ID) : reqs[r].incr = "ok")
        => stats[i].clicks.n = Cardinality(C27_Returned(stats[i].ID))

\* two requests for one link, both counted: the counter is at 2
C27_Witness ==
    /\ Len(stats) = 1
    /\ C27_Returned(stats[1].ID) = {1, 2}
    /\ reqs[1].incr = "ok" /\ reqs[2].incr = "ok"
    /\ reqs[1].reply.status = PERMANENT_REDIRECT
    /\ reqs[2].reply.status = PERMANENT_REDIRECT
    /\ stats[1].clicks = [null |-> FALSE, n |-> 2]

(***************************************************************************)
(* Lookups of short codes that normalization changes: the redirect         *)
(* handlers and Renderer::json_detail over links saved under such codes.   *)
(***************************************************************************)
LookupShorts == {<<"a", "-", "b">>, <<" ">>, <<"/">>, <<"%">>}

NextLookup ==
    \/ \E link \in {[short |-> s, long |-> LongPlain] : s \in LookupShorts} : LinkDAO_save(link)
    \/ \E short \in LookupShorts : Renderer_get(short, <<"/">> \o short, <<>>)
    \/ \E r \in DOMAIN reqs, fails \in BOOLEAN : Renderer_get_incr(r, fails)
    \/ \E r \in DOMAIN reqs : Renderer_get_return(r)
    \/ \E short \in LookupShorts : handlers_get(short, <<"/">> \o short, <<>>)
    \/ \E short \in LookupShorts : Renderer_json_detail(short)
    \/ \E r \in DOMAIN reqs : Renderer_json_detail_stats(r)

SpecLookup == Init /\ [][NextLookup]_vars

(***************************************************************************)
(* C25                                                                     *)
(***************************************************************************)
\* the short code of the request a step has accepted, and whether its
\* lookup found a link
C25_Short ==
    IF C21_Accepted.handler = "Renderer::json_detail"
    THEN C21_Accepted.id ELSE C21_Accepted.short
C25_Found ==
    IF C21_Accepted.handler = "Renderer::json_detail"
    THEN C21_Accepted.pc = "stats" /\ C21_Accepted.link.short = C25_Short
    ELSE C21_Accepted.found.ok /\ C21_Accepted.found.link.short = C25_Short

\* the step accepts a redirect or detail request for a short code under
\* which a link is stored
C25_LookupOfSaved(handlers) ==
    /\ Len(reqs') = Len(reqs) + 1
    /\ C21_Accepted.handler \in handlers
    /\ \E id \in DOMAIN links : links[id].short = C25_Short

\* C25: a redirect or detail request for a short code s under which a link
\* is stored finds that link, whatever characters s has
C25_LookupFindsSaved ==
    [][C25_LookupOfSaved({"Renderer", "handlers", "Renderer::json_detail"})
       => C25_Found]_vars

\* the handlers of render.rs pass the short code to the store as written,
\* and the store normalizes it once, as it did when saving
C25_RendererFindsSaved ==
    [][C25_LookupOfSaved({"Renderer", "Renderer::json_detail"})
       => C25_Found]_vars

\* handlers.rs get finds the links whose key normalization leaves as it is
C25_HandlersFindsPlainKeys ==
    [][(/\ C25_LookupOfSaved({"handlers"})
        /\ normalized_id(normalized_id(C25_Short)) = normalized_id(C25_Short))
       => C25_Found]_vars

(***************************************************************************)
(* Repeated expansions: the same engine called again, with the arguments   *)
(* of the first call or with others, while the store changes.              *)
(***************************************************************************)
MaxCalls == 3

Arguments(c) ==
    [engine |-> c.engine, path |-> c.path, query_params |-> c.query_params,
     long |-> c.long]

\* earlier holds, for every call that has returned, its arguments, what it
\* returned and the store at its return
InitTwice ==
    /\ call \in {[fn |-> "expand_link", engine |-> e, path |-> p,
                  query_params |-> q, long |-> l,
                  state |-> "called", ret |-> <<>>, earlier |-> <<>>] :
                    e \in {"Renderer", "handlers"}, p \in Remainders,
                    q \in {<<>>, << <<<<"q">>, <<"1">>>>, <<<<"k">>, <<"a",
                           "&", "b">>>> >>}, l \in Patterns}
    /\ ServerIdle

CallAgain(args) ==
    /\ call.state = "returned"
    /\ Len(call.earlier) + 1 < MaxCalls
    /\ call' = [call EXCEPT
                  !.engine = args.engine, !.path = args.path,
                  !.query_params = args.query_params, !.long = args.long,
                  !.state = "called", !.ret = <<>>,
                  !.earlier = Append(@, [args |-> Arguments(call),
                                         ret |-> call.ret,
                                         store |-> <<links, stats>>])]
    /\ UNCHANGED <<links, stats, reqs, started>>

NextTwice ==
    \/ CallExpand
    \/ LET FirstArguments == IF call.earlier = <<>> THEN Arguments(call)
                              ELSE call.earlier[1].args
           OtherArguments == [engine |-> "Renderer", path |-> <<"x">>,
                              query_params |-> <<>>, long |-> LongUpper]
       IN  \E args \in {FirstArguments, OtherArguments} : CallAgain(args)
    \/ LinkDAO_save([short |-> <<"a">>, long |-> LongPlain])
    \/ StatsDAO_save(<<"a">>)

SpecTwice == InitTwice /\ [][NextTwice]_vars

====
